---- MODULE Spec2Model ----
(***************************************************************************)
(* Model of the response decoding code of agentcore-to-cortex/app.py:      *)
(* normalize_payload, parse_sse_content and parse_cortex_response_properly.*)
(*                                                                         *)
(* A Python str is a sequence of lexemes.  Every character the code treats *)
(* specially (backslash, double quote, newline, carriage return, space,    *)
(* the letters n and r that follow a backslash, JSON punctuation, a        *)
(* non-ASCII character) is a lexeme of its own; a run of other characters  *)
(* that the code only ever compares as a whole ("data:", "event:", an      *)
(* event name, a JSON key, a word of answer text) is one lexeme.           *)
(***************************************************************************)
EXTENDS Integers, Sequences, FiniteSets, TLC

BS == "\\"
QT == "\""
LF == "\n"
CR == "\r"
SP == " "
DATA == "data:"
EVENT == "event:"

(***************************************************************************)
(* Bounds of the model.                                                    *)
(***************************************************************************)
MaxLen == 4
MaxLines == 4
MaxItems == 2

(***************************************************************************)
(* Non-ASCII characters.  U+E9 is a sample accented letter; the others are *)
(* the Latin-1 characters its UTF-8 bytes turn into when a UTF-8 encoded   *)
(* string is decoded with the unicode_escape codec (which reads every byte *)
(* >= 0x80 as the Latin-1 character of that code): a character c in        *)
(* U+80..U+FF is the two bytes 0xC0 + c \div 64 and 0x80 + c % 64.         *)
(***************************************************************************)
NonAscii == {"U+E9", "U+C3", "U+A9", "U+C2", "U+83", "U+82"}

Utf8AsLatin1(c) ==
  CASE c = "U+E9" -> <<"U+C3", "U+A9">>
    [] c = "U+C3" -> <<"U+C3", "U+83">>
    [] c = "U+A9" -> <<"U+C2", "U+A9">>
    [] c = "U+C2" -> <<"U+C3", "U+82">>
    [] c = "U+83" -> <<"U+C2", "U+83">>
    [] c = "U+82" -> <<"U+C2", "U+82">>

(***************************************************************************)
(* str helpers                                                             *)
(***************************************************************************)
Contains(q, c) == \E k \in 1..Len(q) : q[k] = c

\* the concatenation of pieces[lo], ..., pieces[hi]
RECURSIVE Flatten(_, _, _)
Flatten(pieces, lo, hi) ==
  IF lo > hi THEN <<>>
  ELSE IF lo = hi THEN pieces[lo]
  ELSE LET mid == (lo + hi) \div 2
       IN  Flatten(pieces, lo, mid) \o Flatten(pieces, mid + 1, hi)

Concat(pieces) == Flatten(pieces, 1, Len(pieces))

MatchAt(q, k, pat) ==
  /\ k + Len(pat) - 1 <= Len(q)
  /\ SubSeq(q, k, k + Len(pat) - 1) = pat

\* str.replace(pat, rep).  No pattern the code replaces can overlap with
\* itself, so every occurrence is replaced.
Replace(q, pat, rep) ==
  Concat([k \in 1..Len(q) |->
    IF MatchAt(q, k, pat) THEN rep
    ELSE IF \E j \in 1..(Len(pat) - 1) : k - j >= 1 /\ MatchAt(q, k - j, pat)
         THEN <<>>
         ELSE <<q[k]>>])

(***************************************************************************)
(* Backslash escapes.  Read from left to right, a backslash introduces an  *)
(* escape when an even number of backslashes stands directly before it,    *)
(* and the character after an introducing backslash is escaped.            *)
(***************************************************************************)
RECURSIVE BackslashesBefore(_, _)
BackslashesBefore(q, k) ==
  IF k > 1 /\ q[k - 1] = BS THEN 1 + BackslashesBefore(q, k - 1) ELSE 0

Introduces(q, k) == q[k] = BS /\ BackslashesBefore(q, k) % 2 = 0
IsEscaped(q, k) == BackslashesBefore(q, k) % 2 = 1

Failed == [ok |-> FALSE, v |-> <<>>]

JsonEscapes == {QT, BS, "n", "r"}

JsonEscaped(c) ==
  CASE c = QT -> QT
    [] c = BS -> BS
    [] c = "n" -> LF
    [] c = "r" -> CR

(***************************************************************************)
(* json.loads(f'"{r}"'): r read as the body of one JSON string literal.    *)
(* A raw double quote ends the literal early (extra data follows), a raw   *)
(* control character is rejected, a backslash must start a valid escape.   *)
(***************************************************************************)
JsonUnescape(q) ==
  IF \A k \in 1..Len(q) :
       IF IsEscaped(q, k) THEN q[k] \in JsonEscapes
       ELSE IF q[k] = BS THEN k < Len(q)
       ELSE q[k] \notin {QT, LF, CR}
  THEN [ok |-> TRUE,
        v |-> Concat([k \in 1..Len(q) |->
                IF IsEscaped(q, k) THEN <<JsonEscaped(q[k])>>
                ELSE IF q[k] = BS THEN <<>>
                ELSE <<q[k]>>])]
  ELSE Failed

(***************************************************************************)
(* bytes(r, "utf-8").decode("unicode_escape"): backslash escapes are       *)
(* decoded, backslash-newline is dropped, an unknown escape is kept as it  *)
(* is, a lone trailing backslash raises; every byte of a non-ASCII         *)
(* character comes back as one Latin-1 character.                          *)
(***************************************************************************)
Decoded(c) == IF c \in NonAscii THEN Utf8AsLatin1(c) ELSE <<c>>

UnicodeEscape(q) ==
  IF \A k \in 1..Len(q) : Introduces(q, k) => k < Len(q)
  THEN [ok |-> TRUE,
        v |-> Concat([k \in 1..Len(q) |->
                IF IsEscaped(q, k)
                THEN IF q[k] \in JsonEscapes THEN <<JsonEscaped(q[k])>>
                     ELSE IF q[k] = LF THEN <<>>
                     ELSE Decoded(q[k])
                ELSE IF q[k] = BS
                THEN IF q[k + 1] \in JsonEscapes \cup {LF} THEN <<>> ELSE <<BS>>
                ELSE Decoded(q[k])])]
  ELSE Failed

(***************************************************************************)
(* normalize_payload                                                       *)
(***************************************************************************)
\* for _ in range(5)
NormalizeRange == 5

\* a loop without its bound
LoopContinuesForever(i) == TRUE

LoopContinues(i) == i < NormalizeRange

\* the stop condition looking for an escaped newline instead of a real one
ReadableEscaped(q) ==
  Contains(q, DATA) /\ \E k \in 1..Len(q) : MatchAt(q, k, <<BS, "n">>)

\* if "data:" in r and "\n" in r: break
Readable(q) == Contains(q, DATA) /\ Contains(q, LF)

\* r.replace("\\r\\n", "\n").replace("\\n", "\n")
ReplaceEscapedNewlines(q) ==
  Replace(Replace(q, <<BS, "r", BS, "n">>, <<LF>>), <<BS, "n">>, <<LF>>)

\* one pass of the loop body when the string is not readable:
\* the new r and whether the loop is left
UnescapeOnce(q) ==
  LET j == JsonUnescape(q)
      u == UnicodeEscape(q)
  IN  IF j.ok THEN [r |-> j.v, brk |-> FALSE]
      ELSE IF u.ok THEN [r |-> u.v, brk |-> FALSE]
      ELSE [r |-> q, brk |-> TRUE]

RECURSIVE NormalizeLoop(_, _)
NormalizeLoop(q, i) ==
  IF ~LoopContinues(i) \/ Readable(q) THEN q
  ELSE LET step == UnescapeOnce(q)
       IN  IF step.brk THEN step.r ELSE NormalizeLoop(step.r, i + 1)

normalize_payload(q) == ReplaceEscapedNewlines(NormalizeLoop(q, 0))

(***************************************************************************)
(* Python values.  A value is a record [t, v]: t is the Python type and v  *)
(* the content: the lexemes of a str or of a number, the items of a list,  *)
(* the <<key, value>> pairs of a dict in insertion order.                  *)
(***************************************************************************)
None == [t |-> "none", v |-> <<>>]
Str(q) == [t |-> "str", v |-> q]
Num(q) == [t |-> "num", v |-> q]
List(items) == [t |-> "list", v |-> items]
Dict(pairs) == [t |-> "dict", v |-> pairs]

IsStr(x) == x.t = "str"
IsList(x) == x.t = "list"
IsDict(x) == x.t = "dict"

\* x == "..." for a str literal
StrEq(x, q) == IsStr(x) /\ x.v = q

\* bool(x)
Truthy(x) == x.t /= "none" /\ x.v /= <<>> /\ (x.t = "num" => x.v /= <<"0">>)

\* dict.get(key, default); with a repeated key the last pair wins
RECURSIVE Lookup(_, _, _)
Lookup(pairs, key, default) ==
  IF pairs = <<>> THEN default
  ELSE LET last == pairs[Len(pairs)]
       IN  IF last[1] = key THEN last[2]
           ELSE Lookup(SubSeq(pairs, 1, Len(pairs) - 1), key, default)

Get(d, key, default) == Lookup(d.v, key, default)

\* the types of the model that have a .get method
HasGet(x) == IsDict(x)

(***************************************************************************)
(* More str helpers                                                        *)
(***************************************************************************)
Whitespace == {SP, LF, CR}

RECURSIVE LStrip(_)
LStrip(q) ==
  IF q /= <<>> /\ Head(q) \in Whitespace THEN LStrip(Tail(q)) ELSE q

RECURSIVE RStrip(_)
RStrip(q) ==
  IF q /= <<>> /\ q[Len(q)] \in Whitespace
  THEN RStrip(SubSeq(q, 1, Len(q) - 1)) ELSE q

Strip(q) == LStrip(RStrip(q))

\* str.splitlines(): lines end at "\n", "\r" or "\r\n"; no empty last line
IsBreak(q, k) ==
  \/ q[k] = LF
  \/ q[k] = CR /\ ~(k < Len(q) /\ q[k + 1] = LF)

RECURSIVE SplitLines(_)
SplitLines(q) ==
  IF q = <<>> THEN <<>>
  ELSE IF \E k \in 1..Len(q) : IsBreak(q, k)
       THEN LET b == CHOOSE k \in 1..Len(q) :
                       IsBreak(q, k) /\ \A j \in 1..(k - 1) : ~IsBreak(q, j)
                e == IF b > 1 /\ q[b] = LF /\ q[b - 1] = CR THEN b - 2 ELSE b - 1
            IN  <<SubSeq(q, 1, e)>> \o SplitLines(SubSeq(q, b + 1, Len(q)))
       ELSE <<q>>

\* sep.join(parts)
RECURSIVE Join(_, _)
Join(sep, parts) ==
  IF parts = <<>> THEN <<>>
  ELSE IF Len(parts) = 1 THEN parts[1]
  ELSE parts[1] \o sep \o Join(sep, Tail(parts))

(***************************************************************************)
(* json.loads(data_str) on the grammar of the records of the stream:       *)
(* objects, arrays, strings and numbers, with blanks between the tokens.   *)
(* A parse result is [ok, val, k]: k is the position after the value.      *)
(***************************************************************************)
Digits == {"0", "1"}

NoParse == [ok |-> FALSE, val |-> None, k |-> 0]

RECURSIVE SkipWs(_, _)
SkipWs(q, k) ==
  IF k <= Len(q) /\ q[k] \in Whitespace THEN SkipWs(q, k + 1) ELSE k

\* the body of a string literal, from position k on, up to the closing quote
RECURSIVE ParseStringBody(_, _, _)
ParseStringBody(q, k, acc) ==
  IF k > Len(q) THEN NoParse
  ELSE IF q[k] = QT THEN [ok |-> TRUE, val |-> Str(acc), k |-> k + 1]
  ELSE IF q[k] \in {LF, CR} THEN NoParse
  ELSE IF q[k] = BS
       THEN IF k + 1 <= Len(q) /\ q[k + 1] \in JsonEscapes
            THEN ParseStringBody(q, k + 2, Append(acc, JsonEscaped(q[k + 1])))
            ELSE NoParse
  ELSE ParseStringBody(q, k + 1, Append(acc, q[k]))

RECURSIVE ParseValue(_, _)
RECURSIVE ParseMembers(_, _, _)
RECURSIVE ParseElements(_, _, _)

ParseValue(q, k0) ==
  LET k == SkipWs(q, k0)
  IN  IF k > Len(q) THEN NoParse
      ELSE IF q[k] = QT THEN ParseStringBody(q, k + 1, <<>>)
      ELSE IF q[k] \in Digits THEN [ok |-> TRUE, val |-> Num(<<q[k]>>), k |-> k + 1]
      ELSE IF q[k] = "{"
           THEN LET j == SkipWs(q, k + 1)
                IN  IF j <= Len(q) /\ q[j] = "}"
                    THEN [ok |-> TRUE, val |-> Dict(<<>>), k |-> j + 1]
                    ELSE ParseMembers(q, j, <<>>)
      ELSE IF q[k] = "["
           THEN LET j == SkipWs(q, k + 1)
                IN  IF j <= Len(q) /\ q[j] = "]"
                    THEN [ok |-> TRUE, val |-> List(<<>>), k |-> j + 1]
                    ELSE ParseElements(q, j, <<>>)
      ELSE NoParse

\* "key": value pairs up to the closing brace; k is at the next key
ParseMembers(q, k0, acc) ==
  LET k == SkipWs(q, k0)
  IN  IF k > Len(q) \/ q[k] /= QT THEN NoParse
      ELSE LET key == ParseStringBody(q, k + 1, <<>>)
               c == SkipWs(q, key.k)
           IN  IF ~key.ok \/ c > Len(q) \/ q[c] /= ":" THEN NoParse
               ELSE LET val == ParseValue(q, c + 1)
                        e == SkipWs(q, val.k)
                        pairs == Append(acc, <<key.val.v, val.val>>)
                    IN  IF ~val.ok \/ e > Len(q) THEN NoParse
                        ELSE IF q[e] = "," THEN ParseMembers(q, e + 1, pairs)
                        ELSE IF q[e] = "}"
                             THEN [ok |-> TRUE, val |-> Dict(pairs), k |-> e + 1]
                        ELSE NoParse

\* values up to the closing bracket; k is at the next value
ParseElements(q, k0, acc) ==
  LET val == ParseValue(q, k0)
      e == SkipWs(q, val.k)
      items == Append(acc, val.val)
  IN  IF ~val.ok \/ e > Len(q) THEN NoParse
      ELSE IF q[e] = "," THEN ParseElements(q, e + 1, items)
      ELSE IF q[e] = "]" THEN [ok |-> TRUE, val |-> List(items), k |-> e + 1]
      ELSE NoParse

\* json.loads: one value and nothing but blanks after it
JsonLoads(q) ==
  LET p == ParseValue(q, 1)
  IN  IF p.ok /\ SkipWs(q, p.k) > Len(q) THEN [ok |-> TRUE, val |-> p.val]
      ELSE [ok |-> FALSE, val |-> None]

(***************************************************************************)
(* parse_sse_content: the per-line JSON parse with its fallback            *)
(***************************************************************************)
\* for _ in range(2)
ParseRange == 2

\* data_str.encode("utf-8").decode("unicode_escape").replace('\\"', '"')
Reinterpret(d) ==
  LET u == UnicodeEscape(d)
  IN  [ok |-> u.ok, v |-> Replace(u.v, <<BS, QT>>, <<QT>>)]

\* the loop of lines 181-191 from pass n on: ev, and how many json.loads
\* calls and how many reinterpretations were made
\* range(3)
LoadContinuesThrice(n) == n < ParseRange + 1

\* line 181: for _ in range(2), n passes started
LoadContinues(n) == n < ParseRange

RECURSIVE LoadLoop(_, _, _, _)
LoadLoop(d, n, loads, reinterprets) ==
  IF ~LoadContinues(n)
  THEN [ev |-> None, loads |-> loads, reinterprets |-> reinterprets]
  ELSE LET p == JsonLoads(d)
           f == Reinterpret(d)
       IN  IF p.ok
           THEN [ev |-> p.val, loads |-> loads + 1, reinterprets |-> reinterprets]
           ELSE IF f.ok
                THEN LoadLoop(f.v, n + 1, loads + 1, reinterprets + 1)
                ELSE [ev |-> None, loads |-> loads + 1,
                      reinterprets |-> reinterprets]

LoadRecord(d) == LoadLoop(d, 0, 0, 0)

(***************************************************************************)
(* parse_sse_content: one pass of the loop over payload.splitlines().      *)
(* w is the record of the locals current_event, answer_chunks and          *)
(* final_answer_text, and exc, the name of the exception the pass raised   *)
(* ("" when it raised none).                                               *)
(***************************************************************************)
RESPONSE == <<"response">>
TEXT_DELTA == <<"response.text.delta">>
THINKING_DELTA == <<"response.thinking.delta">>

DoneMarkers == {<<"[", "DONE", "]">>, <<"DONE">>, <<>>}

\* lines 197-199: the items of a final record, from item n on
RECURSIVE FinalItems(_, _, _)
FinalItems(items, n, final) ==
  IF n > Len(items) THEN [final |-> final, exc |-> ""]
  ELSE LET item == items[n]
       IN  IF ~HasGet(item) THEN [final |-> final, exc |-> "AttributeError"]
           ELSE IF /\ StrEq(Get(item, <<"type">>, None), <<"text">>)
                   /\ IsStr(Get(item, <<"text">>, None))
                THEN LET txt == Strip(Get(item, <<"text">>, None).v)
                     IN  FinalItems(items, n + 1, IF txt /= <<>> THEN txt ELSE final)
                ELSE FinalItems(items, n + 1, final)

\* lines 195-211 with thinking deltas collected like text deltas
ClassifyThinkingToo(w, ev) ==
  IF /\ w.current_event = RESPONSE
     /\ Truthy(Get(ev, <<"role">>, None))
     /\ IsList(Get(ev, <<"content">>, None))
  THEN LET f == FinalItems(Get(ev, <<"content">>, None).v, 1, w.final_answer_text)
       IN  [w EXCEPT !.final_answer_text = f.final, !.exc = f.exc]
  ELSE IF /\ w.current_event \in {TEXT_DELTA, THINKING_DELTA}
          /\ IsStr(Get(ev, <<"text">>, None))
       THEN LET txt == Get(ev, <<"text">>, None).v
            IN  IF Strip(txt) /= <<>>
                THEN [w EXCEPT !.answer_chunks = Append(@, RStrip(txt))]
                ELSE w
  ELSE w

\* lines 195-211: the classification of a parsed record
Classify(w, ev) ==
  IF /\ w.current_event = RESPONSE
     /\ Truthy(Get(ev, <<"role">>, None))
     /\ IsList(Get(ev, <<"content">>, None))
  THEN LET f == FinalItems(Get(ev, <<"content">>, None).v, 1, w.final_answer_text)
       IN  [w EXCEPT !.final_answer_text = f.final, !.exc = f.exc]
  ELSE IF w.current_event = TEXT_DELTA /\ IsStr(Get(ev, <<"text">>, None))
       THEN LET txt == Get(ev, <<"text">>, None).v
            IN  IF Strip(txt) /= <<>>
                THEN [w EXCEPT !.answer_chunks = Append(@, RStrip(txt))]
                ELSE w
  ELSE w

\* lines 168-211 with an event name that lasts for one data line only
WalkLineResets(w, rawline) ==
  LET line == Strip(rawline)
      data_str == Strip(Tail(line))
      ev == LoadRecord(data_str).ev
  IN  IF line = <<>> THEN w
      ELSE IF Head(line) = EVENT
           THEN [w EXCEPT !.current_event = Strip(Tail(line))]
      ELSE IF Head(line) /= DATA THEN w
      ELSE IF data_str \in DoneMarkers THEN [w EXCEPT !.current_event = <<>>]
      ELSE IF ~IsDict(ev) THEN [w EXCEPT !.current_event = <<>>]
      ELSE [Classify(w, ev) EXCEPT !.current_event = <<>>]

\* lines 168-211 without the handler around json.loads
WalkLineAborts(w, rawline) ==
  LET line == Strip(rawline)
      data_str == Strip(Tail(line))
      ev == LoadRecord(data_str).ev
  IN  IF line = <<>> THEN w
      ELSE IF Head(line) = EVENT
           THEN [w EXCEPT !.current_event = Strip(Tail(line))]
      ELSE IF Head(line) /= DATA THEN w
      ELSE IF data_str \in DoneMarkers THEN w
      ELSE IF ev.t = "none" THEN [w EXCEPT !.exc = "JSONDecodeError"]
      ELSE IF ~IsDict(ev) THEN w
      ELSE Classify(w, ev)

\* lines 168-211 with an end-of-stream marker that ends the walk
WalkLineDoneEnds(w, rawline) ==
  LET line == Strip(rawline)
      data_str == Strip(Tail(line))
      ev == LoadRecord(data_str).ev
  IN  IF line = <<>> THEN w
      ELSE IF Head(line) = EVENT
           THEN [w EXCEPT !.current_event = Strip(Tail(line))]
      ELSE IF Head(line) /= DATA THEN w
      ELSE IF data_str \in DoneMarkers THEN [w EXCEPT !.exc = "StopIteration"]
      ELSE IF ~IsDict(ev) THEN w
      ELSE Classify(w, ev)

\* lines 168-211
WalkLine(w, rawline) ==
  LET line == Strip(rawline)
      data_str == Strip(Tail(line))
      ev == LoadRecord(data_str).ev
  IN  IF line = <<>> THEN w
      ELSE IF Head(line) = EVENT
           THEN [w EXCEPT !.current_event = Strip(Tail(line))]
      ELSE IF Head(line) /= DATA THEN w
      ELSE IF data_str \in DoneMarkers THEN w
      ELSE IF ~IsDict(ev) THEN w
      ELSE Classify(w, ev)

\* lines 163-166
WalkStart ==
  [current_event |-> <<>>, answer_chunks |-> <<>>,
   final_answer_text |-> <<>>, exc |-> ""]

\* the loop from line n on; it is left when a pass raises
RECURSIVE WalkFrom(_, _, _)
WalkFrom(w, lines, n) ==
  IF n > Len(lines) \/ w.exc /= "" THEN w
  ELSE WalkFrom(WalkLine(w, lines[n]), lines, n + 1)

\* lines 213-215 with the streamed chunks put before the final text
AnswerChunksFirst(w, sse_text) ==
  LET answer == Strip(Join(<<SP>>, w.answer_chunks \o <<w.final_answer_text>>))
  IN  IF answer /= <<>> THEN answer ELSE sse_text

\* lines 213-215
Answer(w, sse_text) ==
  LET answer == IF w.final_answer_text /= <<>>
                THEN Strip(w.final_answer_text)
                ELSE Strip(Join(<<LF>>, w.answer_chunks))
  IN  IF answer /= <<>> THEN answer ELSE sse_text

\* line 157
NothingToParse(sse_text) == sse_text = <<>> \/ ~Contains(sse_text, EVENT)

\* the whole function: the str it returns, or the exception it raises
Outcome(w, sse_text) ==
  [exc |-> w.exc, ret |-> IF w.exc = "" THEN Answer(w, sse_text) ELSE <<>>]

parse_sse_content(sse_text) ==
  IF NothingToParse(sse_text) THEN [exc |-> "", ret |-> sse_text]
  ELSE Outcome(WalkFrom(WalkStart, SplitLines(normalize_payload(sse_text)), 1),
               sse_text)

(***************************************************************************)
(* parse_cortex_response_properly                                          *)
(***************************************************************************)
COULD_NOT_PARSE ==
  <<"Could not parse Cortex response properly. See detailed response below.">>

\* f"Error parsing Cortex response: {e}"; the message of e is modelled by
\* the name of its class
ErrorText(e) == <<"Error parsing Cortex response: ", e>>

\* except TypeError
CatchesOnlyTypeError(e) == e = "TypeError"

\* except Exception
Catches(e) == TRUE

\* for item in x: the items, or not iterable
Iterable(x) == x.t \in {"list", "str", "dict"}
Items(x) ==
  CASE x.t = "list" -> x.v
    [] x.t = "str" -> [k \in 1..Len(x.v) |-> Str(<<x.v[k]>>)]
    [] x.t = "dict" -> [k \in 1..Len(x.v) |-> Str(x.v[k][1])]

\* '...' in x for a container x
In(lexeme, x) ==
  CASE x.t = "str" -> Contains(x.v, lexeme)
    [] x.t = "list" -> \E k \in 1..Len(x.v) : StrEq(x.v[k], <<lexeme>>)
    [] x.t = "dict" -> \E k \in 1..Len(x.v) : x.v[k][1] = <<lexeme>>

\* x == y for the values compared at line 278
SameValue(x, y) == x.t = y.t /\ x.v = y.v

\* parse_sse_content applied to the value of a "text" key; a container
\* that is not a str has no lines and comes back as it is
ParseSseValue(x) ==
  IF IsStr(x)
  THEN LET p == parse_sse_content(x.v) IN [exc |-> p.exc, ret |-> Str(p.ret)]
  ELSE [exc |-> "", ret |-> x]

\* lines 267-268: the list to loop over, or the exception raised
Enter(cortex_data) ==
  LET result == Get(cortex_data, <<"result">>, Dict(<<>>))
      content == Get(result, <<"content">>, List(<<>>))
  IN  IF ~HasGet(cortex_data) \/ ~HasGet(result)
      THEN [exc |-> "AttributeError", items |-> <<>>]
      ELSE IF ~Iterable(content) THEN [exc |-> "TypeError", items |-> <<>>]
      ELSE [exc |-> "", items |-> Items(content)]

\* line 271 without the test of the type tag
IsTextItemAlways(item) == TRUE

\* line 271
IsTextItem(item) == StrEq(Get(item, <<"type">>, None), <<"text">>)

\* the three ways a pass of the loop ends
Continue == [do |-> "continue", ret |-> None, exc |-> ""]
Raise(e) == [do |-> "raise", ret |-> None, exc |-> e]
Return(x) == [do |-> "return", ret |-> x, exc |-> ""]

\* lines 277-279: what the pass does with the result of parse_sse_content
DecodeParsed(text_content, parsed) ==
  IF parsed.exc /= "" THEN Raise(parsed.exc)
  ELSE IF Truthy(parsed.ret) /\ ~SameValue(parsed.ret, text_content)
       THEN Return(parsed.ret)
       ELSE Continue

\* lines 272-282: a text element whose "text" is text_content
DecodeText(text_content) ==
  IF ~Iterable(text_content) THEN Raise("TypeError")
  ELSE IF In(EVENT, text_content) /\ In(DATA, text_content)
       THEN DecodeParsed(text_content, ParseSseValue(text_content))
       ELSE Return(text_content)

\* lines 271-282, one pass of the loop: what the pass does ("return",
\* "continue" or "raise"), and the value returned or the exception raised
DecodeItem(item) ==
  IF ~HasGet(item) THEN Raise("AttributeError")
  ELSE IF ~IsTextItem(item) THEN Continue
  ELSE DecodeText(Get(item, <<"text">>, Str(<<>>)))

\* lines 270-285: the loop from item k on, d being what the pass on item k
\* does
RECURSIVE DecodeFrom(_, _)
DecodeAfter(d, items, k) ==
  CASE d.do = "return" -> d.ret
    [] d.do = "raise" -> Str(ErrorText(d.exc))
    [] d.do = "continue" -> DecodeFrom(items, k + 1)

DecodeFrom(items, k) ==
  IF k > Len(items) THEN Str(COULD_NOT_PARSE)
  ELSE DecodeAfter(DecodeItem(items[k]), items, k)

DecodeEntered(e) ==
  IF e.exc /= "" THEN Str(ErrorText(e.exc)) ELSE DecodeFrom(e.items, 1)

\* the whole function: the value it returns
parse_cortex_response_properly(cortex_data) == DecodeEntered(Enter(cortex_data))

(***************************************************************************)
(* Inputs of parse_sse_content: streams of at most MaxLines lines.         *)
(***************************************************************************)
JStr(q) == <<QT>> \o q \o <<QT>>
Member(key, val) == JStr(<<key>>) \o <<":">> \o val
Obj(members) == <<"{">> \o Join(<<",">>, members) \o <<"}">>
Arr(elements) == <<"[">> \o Join(<<",">>, elements) \o <<"]">>
EventLine(name) == <<EVENT, SP>> \o name
DataLine(body) == <<DATA, SP>> \o body

TextItem(q) == Obj(<<Member("type", JStr(<<"text">>)), Member("text", JStr(q))>>)
FinalRecord(items) ==
  Obj(<<Member("role", JStr(<<"assistant">>)), Member("content", Arr(items))>>)

\* json.dumps(q)[1:-1] for the characters of the model
JsonEscape(q) ==
  Concat([k \in 1..Len(q) |->
    CASE q[k] = QT -> <<BS, QT>>
      [] q[k] = BS -> <<BS, BS>>
      [] q[k] = LF -> <<BS, "n">>
      [] q[k] = CR -> <<BS, "r">>
      [] OTHER -> <<q[k]>>])

DeltaChunkLine == DataLine(Obj(<<Member("text", JStr(<<"partial", SP>>))>>))
FinalLine == DataLine(FinalRecord(<<TextItem(<<"final", SP, "answer">>)>>))
BadItemLine == DataLine(FinalRecord(<<<<"1">>>>))
DeltaShapeLine ==
  DataLine(Obj(<<Member("delta",
    Obj(<<Member("content", Arr(<<TextItem(<<"shaped">>)>>))>>))>>))

LineCatalog ==
  { EventLine(TEXT_DELTA),
    EventLine(RESPONSE),
    <<>>,
    DeltaChunkLine,
    DataLine(Obj(<<Member("text", JStr(<<"more">>))>>)),
    FinalLine,
    DataLine(<<"{">> \o Member("text", <<QT, "broken">>)),
    DataLine(JsonEscape(Obj(<<Member("text", JStr(<<"escaped">>))>>))),
    DeltaShapeLine,
    BadItemLine }

Streams == UNION {[1..n -> LineCatalog] : n \in 1..MaxLines}

\* lines with the end-of-stream markers, thinking records and blank chunks
BlankChunkLine == DataLine(Obj(<<Member("text", JStr(<<SP>>))>>))

MarkerCatalog ==
  { EventLine(TEXT_DELTA),
    EventLine(THINKING_DELTA),
    EventLine(RESPONSE),
    DataLine(<<"[", "DONE", "]">>),
    DataLine(<<"DONE">>),
    <<DATA>>,
    DeltaChunkLine,
    DataLine(Obj(<<Member("text", JStr(<<"more">>))>>)),
    BlankChunkLine,
    FinalLine }

MarkerStreams == UNION {[1..n -> MarkerCatalog] : n \in 1..MaxLines}

\* lines with text chunks, one of them a chunk whose text holds a newline
\* (the two characters backslash and n inside the JSON string)
NewlineChunkLine ==
  DataLine(Obj(<<Member("text", JStr(<<"two", BS, "n", "three">>))>>))

ChunkCatalog ==
  { EventLine(TEXT_DELTA),
    EventLine(RESPONSE),
    DeltaChunkLine,
    DataLine(Obj(<<Member("text", JStr(<<"more">>))>>)),
    BlankChunkLine,
    NewlineChunkLine,
    FinalLine }

ChunkStreams == UNION {[1..n -> ChunkCatalog] : n \in 1..MaxLines}

\* lines with several final records and several text items in one record:
\* blank texts, and a text that holds a newline (the two characters
\* backslash and n inside the JSON string)
TwoItemsLine ==
  DataLine(FinalRecord(<<TextItem(<<"one">>), TextItem(<<"two">>)>>))
ItemThenBlankLine ==
  DataLine(FinalRecord(<<TextItem(<<"kept">>), TextItem(<<SP>>)>>))
BlankFinalLine == DataLine(FinalRecord(<<TextItem(<<SP>>)>>))
NewlineFinalLine ==
  DataLine(FinalRecord(<<TextItem(<<"two", BS, "n", "three">>)>>))

FinalCatalog ==
  { EventLine(TEXT_DELTA),
    EventLine(RESPONSE),
    DeltaChunkLine,
    FinalLine,
    TwoItemsLine,
    ItemThenBlankLine,
    BlankFinalLine,
    NewlineFinalLine }

FinalStreams == UNION {[1..n -> FinalCatalog] : n \in 1..MaxLines}

\* a delta-shape record whose tool result is a table with one column and
\* one row
TableItem ==
  Obj(<<Member("type", JStr(<<"table">>)),
        Member("columns", Arr(<<JStr(<<"title">>)>>)),
        Member("rows", Arr(<<Arr(<<JStr(<<"Toy", SP, "Story">>)>>)>>))>>)

TableLine ==
  DataLine(Obj(<<Member("delta", Obj(<<Member("content", Arr(<<
    Obj(<<Member("type", JStr(<<"tool_results">>)),
          Member("tool_results", Obj(<<Member("content", Arr(<<TableItem>>))>>))>>)
    >>))>>))>>))

TableCatalog ==
  { EventLine(TEXT_DELTA),
    EventLine(RESPONSE),
    DataLine(Obj(<<Member("text", JStr(<<"more">>))>>)),
    FinalLine,
    TableLine }

TableStreams == UNION {[1..n -> TableCatalog] : n \in 1..MaxLines}

(***************************************************************************)
(* Inputs of parse_cortex_response_properly: envelopes whose               *)
(* result.content has at most MaxItems elements, and envelopes of other    *)
(* shapes.                                                                 *)
(***************************************************************************)
Stream(stream) == Str(Join(<<LF>>, stream))
TextElement(text) == Dict(<< <<<<"type">>, Str(<<"text">>)>>, <<<<"text">>, text>> >>)
Envelope(content) ==
  Dict(<< <<<<"result">>, Dict(<< <<<<"content">>, content>> >>)>> >>)

ElementCatalog ==
  << TextElement(Str(<<>>)),
     TextElement(Str(<<SP>>)),
     TextElement(Str(<<"hello">>)),
     TextElement(Stream(<<EventLine(TEXT_DELTA), DeltaChunkLine>>)),
     TextElement(Stream(<<EventLine(RESPONSE), FinalLine>>)),
     TextElement(Str(JsonEscape(Join(<<LF>>, <<EventLine(RESPONSE), FinalLine>>)))),
     TextElement(Stream(<<EventLine(RESPONSE), DataLine(<<"[", "DONE", "]">>)>>)),
     TextElement(Stream(<<EventLine(RESPONSE), BadItemLine>>)),
     TextElement(Stream(<<EventLine(TEXT_DELTA), DeltaShapeLine>>)),
     TextElement(Num(<<"1">>)),
     Dict(<< <<<<"type">>, Str(<<"text">>)>> >>),
     Dict(<< <<<<"type">>, Str(<<"tool_result">>)>> >>),
     Num(<<"1">>) >>

OtherEnvelopes ==
  << None,
     List(<<>>),
     Str(<<"hello">>),
     Dict(<<>>),
     Dict(<< <<<<"result">>, None>> >>),
     Dict(<< <<<<"result">>, Str(<<"hello">>)>> >>),
     Envelope(None),
     Envelope(Num(<<"1">>)),
     Envelope(Str(<<"hello">>)),
     Envelope(Dict(<< <<<<"type">>, Str(<<"text">>)>> >>)) >>

(***************************************************************************)
(* TextRepair.repairMojibake, on text as a sequence of code points         *)
(***************************************************************************)
\* the code points of the Windows code page for the bytes 128..159
Cp1252High ==
  { <<128, 8364>>, <<130, 8218>>, <<131, 402>>, <<132, 8222>>, <<133, 8230>>,
    <<134, 8224>>, <<135, 8225>>, <<136, 710>>, <<137, 8240>>, <<138, 352>>,
    <<139, 8249>>, <<140, 338>>, <<142, 381>>, <<145, 8216>>, <<146, 8217>>,
    <<147, 8220>>, <<148, 8221>>, <<149, 8226>>, <<150, 8211>>, <<151, 8212>>,
    <<152, 732>>, <<153, 8482>>, <<154, 353>>, <<155, 8250>>, <<156, 339>>,
    <<158, 382>>, <<159, 376>> }

\* the byte of code point c in a single-byte encoding, -1 when it has none
Latin1Byte(c) == IF c <= 255 THEN c ELSE -1

Cp1252Byte(c) ==
  IF \E p \in Cp1252High : p[2] = c
  THEN (CHOOSE p \in Cp1252High : p[2] = c)[1]
  ELSE IF c <= 127 \/ (c >= 160 /\ c <= 255) THEN c
  ELSE -1

Encodings == <<"latin-1", "cp1252">>

ByteOf(encoding, c) ==
  IF encoding = "latin-1" THEN Latin1Byte(c) ELSE Cp1252Byte(c)

IsContinuation(b) == b >= 128 /\ b <= 191

\* the bytes b decoded as UTF-8 from position k on; ok is FALSE when they
\* are no UTF-8
RECURSIVE Utf8Decode(_, _, _)
Utf8Decode(b, k, acc) ==
  LET cont(j) == k + j <= Len(b) /\ IsContinuation(b[k + j])
      two == (b[k] - 192) * 64 + (b[k + 1] - 128)
      three == (b[k] - 224) * 4096 + (b[k + 1] - 128) * 64 + (b[k + 2] - 128)
      four == (b[k] - 240) * 262144 + (b[k + 1] - 128) * 4096
                + (b[k + 2] - 128) * 64 + (b[k + 3] - 128)
  IN  IF k > Len(b) THEN [ok |-> TRUE, v |-> acc]
      ELSE IF b[k] <= 127 THEN Utf8Decode(b, k + 1, Append(acc, b[k]))
      ELSE IF b[k] >= 194 /\ b[k] <= 223 /\ cont(1)
           THEN Utf8Decode(b, k + 2, Append(acc, two))
      ELSE IF /\ b[k] >= 224 /\ b[k] <= 239 /\ cont(1) /\ cont(2)
              /\ three >= 2048 /\ ~(three >= 55296 /\ three <= 57343)
           THEN Utf8Decode(b, k + 3, Append(acc, three))
      ELSE IF /\ b[k] >= 240 /\ b[k] <= 244 /\ cont(1) /\ cont(2) /\ cont(3)
              /\ four >= 65536 /\ four <= 1114111
           THEN Utf8Decode(b, k + 4, Append(acc, four))
      ELSE [ok |-> FALSE, v |-> <<>>]

\* the candidate of an encoding: q re-encoded with it and decoded as UTF-8;
\* there is none when either step fails
Candidate(encoding, q) ==
  IF \A k \in 1..Len(q) : ByteOf(encoding, q[k]) >= 0
  THEN Utf8Decode([k \in 1..Len(q) |-> ByteOf(encoding, q[k])], 1, <<>>)
  ELSE [ok |-> FALSE, v |-> <<>>]

\* the penalty: 3 per control character other than tab, newline and
\* carriage return, 5 per replacement character, 1 per character above ASCII
IsControl(c) == (c < 32 /\ c \notin {9, 10, 13}) \/ (c >= 127 /\ c <= 159)

PenaltyOf(c) ==
  (IF IsControl(c) THEN 3 ELSE 0) + (IF c = 65533 THEN 5 ELSE 0)
    + (IF c > 127 THEN 1 ELSE 0)

RECURSIVE Penalty(_)
Penalty(q) == IF q = <<>> THEN 0 ELSE PenaltyOf(Head(q)) + Penalty(Tail(q))

\* a candidate is taken whenever there is one
BetterAlways(candidate, best) == TRUE

\* the lowest penalty wins, and the earlier candidate wins a tie
Better(candidate, best) == Penalty(candidate) < Penalty(best)

(***************************************************************************)
(* State                                                                   *)
(***************************************************************************)
VARIABLES
  s,        \* normalize_payload: the argument
  r,        \* normalize_payload: the local r
  i,        \* normalize_payload: number of loop passes started
  npc,      \* normalize_payload: "loop", "post", "done"; "idle" when unused
  sse_text,           \* parse_sse_content: the argument
  lines,              \* parse_sse_content: payload.splitlines()
  ln,                 \* parse_sse_content: index of the next line
  current_event,      \* parse_sse_content: local
  answer_chunks,      \* parse_sse_content: local
  final_answer_text,  \* parse_sse_content: local
  exc,                \* parse_sse_content: the exception raised, "" if none
  answer,             \* parse_sse_content: the value returned
  spc,      \* parse_sse_content: "start", "walk", "done", "raised"; or "idle"
  cortex_data,  \* parse_cortex_response_properly: the argument
  content,      \* parse_cortex_response_properly: the items looped over
  it,           \* parse_cortex_response_properly: index of the next item
  caught,       \* parse_cortex_response_properly: the exception handled
  ret,          \* parse_cortex_response_properly: the value returned
  dpc,      \* parse_cortex_response_properly: "start", "loop", "done",
            \* "propagated" when an exception leaves the function; or "idle"
  line_data,     \* lines 176-191: data_str before the loop
  data_str,      \* lines 176-191: the local data_str
  ev,            \* lines 180-191: the local ev
  lpass,         \* lines 181-191: number of loop passes started
  loads,         \* lines 181-191: number of json.loads calls made
  reinterprets,  \* lines 181-191: number of reinterpretations made
  lpc,      \* lines 181-191: "loop", "done"; "idle" when unused
  repair_in,    \* repairMojibake: the argument, a sequence of code points
  repair_best,  \* repairMojibake: the best candidate so far
  repair_k,     \* repairMojibake: index of the next encoding to try
  rpc,      \* repairMojibake: "try", "done"; "idle" when unused
  calls,    \* concurrent calls of parse_cortex_response_properly: for each
            \* call its argument, position, loop state and value returned
  frames,   \* the locals of parse_sse_content, for each frame
  dry_run,  \* run_cleanup: AWSResourceCleanup.dry_run
  aws,      \* run_cleanup: the resources of the account
  settings_exists,  \* run_cleanup: whether settings.json exists
  api_calls,  \* run_cleanup: the calls made to the AWS clients and to the
              \* file system, in order, each with its outcome
  results,    \* run_cleanup: the lists of deleted resources
  resources,  \* run_cleanup: the list under iteration and the position in it
  resource_k,
  children,   \* run_cleanup: the targets or policies of the current resource
  child_k,
  providers,  \* run_cleanup: the credential providers listed for a target
  provider_k,
  cpc,      \* run_cleanup: the position in the script; "idle" when unused
  script,   \* gateway creation: "create_gateway" or
            \* "create_multi_target_gateway"
  cloud,    \* gateway creation: the resources created so far, in order
  cognito_response,  \* gateway creation: the keys of the response of step 1
  gateway_response,  \* gateway creation: the keys of the response of step 2
  step_log,      \* gateway creation: the calls made, each with its outcome
  settings_json, \* gateway creation: the state of the file settings.json
  gpc       \* gateway creation: the position in the script; "idle" when
            \* unused

normVars == <<s, r, i, npc>>
sseVars == <<sse_text, lines, ln, current_event, answer_chunks,
             final_answer_text, exc, answer, spc>>
decodeVars == <<cortex_data, content, it, caught, ret, dpc>>
loadVars == <<line_data, data_str, ev, lpass, loads, reinterprets, lpc>>
repairVars == <<repair_in, repair_best, repair_k, rpc>>
callVars == <<calls, frames>>
cleanupVars == <<dry_run, aws, settings_exists, api_calls, results, resources,
                 resource_k, children, child_k, providers, provider_k, cpc>>
createVars == <<script, cloud, cognito_response, gateway_response, step_log,
                settings_json, gpc>>
otherCreateVars ==
  <<normVars, sseVars, decodeVars, loadVars, repairVars, callVars,
    cleanupVars>>
vars == <<normVars, sseVars, decodeVars, loadVars, repairVars, callVars,
          cleanupVars, createVars>>

NormIdle == s = <<>> /\ r = <<>> /\ i = 0 /\ npc = "idle"
SseIdle ==
  /\ sse_text = <<>> /\ lines = <<>> /\ ln = 0
  /\ current_event = <<>> /\ answer_chunks = <<>> /\ final_answer_text = <<>>
  /\ exc = "" /\ answer = <<>> /\ spc = "idle"
DecodeIdle ==
  /\ cortex_data = None /\ content = <<>> /\ it = 0
  /\ caught = "" /\ ret = None /\ dpc = "idle"

LoadIdle ==
  /\ line_data = <<>> /\ data_str = <<>> /\ ev = None
  /\ lpass = 0 /\ loads = 0 /\ reinterprets = 0 /\ lpc = "idle"
RepairIdle ==
  repair_in = <<>> /\ repair_best = <<>> /\ repair_k = 0 /\ rpc = "idle"
CallIdle == calls = <<>> /\ frames = <<>>
CleanupIdle ==
  /\ dry_run = FALSE /\ aws = <<>> /\ settings_exists = FALSE
  /\ api_calls = <<>> /\ results = <<>>
  /\ resources = <<>> /\ resource_k = 0 /\ children = <<>> /\ child_k = 0
  /\ providers = <<>> /\ provider_k = 0 /\ cpc = "idle"
CreateIdle ==
  /\ script = "" /\ cloud = <<>> /\ cognito_response = {}
  /\ gateway_response = {} /\ step_log = <<>> /\ settings_json = ""
  /\ gpc = "idle"

(***************************************************************************)
(* normalize_payload, pass by pass                                         *)
(***************************************************************************)
NormAlphabet == {BS, QT, LF, "n", "r", DATA, "z", "U+E9"}

Strings(n) == UNION {[1..k -> NormAlphabet] : k \in 0..n}

InitNormalize ==
  /\ s \in Strings(MaxLen)
  /\ r = s
  /\ i = 0
  /\ npc = "loop"
  /\ SseIdle /\ DecodeIdle /\ LoadIdle /\ RepairIdle /\ CallIdle /\ CleanupIdle /\ CreateIdle

\* the stop condition holds at the top of a pass: break
NormBreakReadable ==
  /\ npc = "loop" /\ LoopContinues(i) /\ Readable(r)
  /\ npc' = "post"
  /\ UNCHANGED <<s, r, i, sseVars, decodeVars, loadVars, repairVars, callVars, cleanupVars, createVars>>

\* one pass that unescapes r and goes on to the next pass
NormUnescape ==
  /\ npc = "loop" /\ LoopContinues(i) /\ ~Readable(r)
  /\ ~UnescapeOnce(r).brk
  /\ r' = UnescapeOnce(r).r
  /\ i' = i + 1
  /\ UNCHANGED <<s, npc, sseVars, decodeVars, loadVars, repairVars, callVars, cleanupVars, createVars>>

\* both attempts raise: break
NormBreakFailed ==
  /\ npc = "loop" /\ LoopContinues(i) /\ ~Readable(r)
  /\ UnescapeOnce(r).brk
  /\ i' = i + 1
  /\ npc' = "post"
  /\ UNCHANGED <<s, r, sseVars, decodeVars, loadVars, repairVars, callVars, cleanupVars, createVars>>

\* range(5) is exhausted
NormExhausted ==
  /\ npc = "loop" /\ ~LoopContinues(i)
  /\ npc' = "post"
  /\ UNCHANGED <<s, r, i, sseVars, decodeVars, loadVars, repairVars, callVars, cleanupVars, createVars>>

\* the replacements after the loop, and return
NormReturn ==
  /\ npc = "post"
  /\ r' = ReplaceEscapedNewlines(r)
  /\ npc' = "done"
  /\ UNCHANGED <<s, i, sseVars, decodeVars, loadVars, repairVars, callVars, cleanupVars, createVars>>

NextNormalize ==
  \/ NormBreakReadable
  \/ NormUnescape
  \/ NormBreakFailed
  \/ NormExhausted
  \/ NormReturn

SpecNormalize == InitNormalize /\ [][NextNormalize]_vars

(***************************************************************************)
(* parse_sse_content, line by line                                         *)
(***************************************************************************)
InitSse ==
  /\ \E stream \in Streams, escaped \in BOOLEAN :
       sse_text = IF escaped THEN JsonEscape(Join(<<LF>>, stream))
                  ELSE Join(<<LF>>, stream)
  /\ lines = <<>> /\ ln = 0
  /\ current_event = <<>> /\ answer_chunks = <<>> /\ final_answer_text = <<>>
  /\ exc = "" /\ answer = <<>> /\ spc = "start"
  /\ NormIdle /\ DecodeIdle /\ LoadIdle /\ RepairIdle /\ CallIdle /\ CleanupIdle /\ CreateIdle

Locals ==
  [current_event |-> current_event, answer_chunks |-> answer_chunks,
   final_answer_text |-> final_answer_text, exc |-> exc]

\* line 157-158: nothing to parse, the argument is returned
SseReturnInput ==
  /\ spc = "start" /\ NothingToParse(sse_text)
  /\ answer' = sse_text
  /\ spc' = "done"
  /\ UNCHANGED <<sse_text, lines, ln, current_event, answer_chunks,
                 final_answer_text, exc, normVars, decodeVars, loadVars, repairVars, callVars, cleanupVars, createVars>>

\* lines 161-167: normalize, set up the locals and split into lines
SseNormalize ==
  /\ spc = "start" /\ ~NothingToParse(sse_text)
  /\ lines' = SplitLines(normalize_payload(sse_text))
  /\ ln' = 1
  /\ current_event' = WalkStart.current_event
  /\ answer_chunks' = WalkStart.answer_chunks
  /\ final_answer_text' = WalkStart.final_answer_text
  /\ spc' = "walk"
  /\ UNCHANGED <<sse_text, exc, answer, normVars, decodeVars, loadVars, repairVars, callVars, cleanupVars, createVars>>

\* one pass of the loop over the lines
SseLine ==
  /\ spc = "walk" /\ ln <= Len(lines)
  /\ LET w == WalkLine(Locals, lines[ln])
     IN  /\ current_event' = w.current_event
         /\ answer_chunks' = w.answer_chunks
         /\ final_answer_text' = w.final_answer_text
         /\ exc' = w.exc
         /\ spc' = IF w.exc = "" THEN "walk" ELSE "raised"
  /\ ln' = ln + 1
  /\ UNCHANGED <<sse_text, lines, answer, normVars, decodeVars, loadVars, repairVars, callVars, cleanupVars, createVars>>

\* lines 213-215
SseReturn ==
  /\ spc = "walk" /\ ln > Len(lines)
  /\ answer' = Answer(Locals, sse_text)
  /\ spc' = "done"
  /\ UNCHANGED <<sse_text, lines, ln, current_event, answer_chunks,
                 final_answer_text, exc, normVars, decodeVars, loadVars, repairVars, callVars, cleanupVars, createVars>>

NextSse ==
  \/ SseReturnInput
  \/ SseNormalize
  \/ SseLine
  \/ SseReturn

SpecSse == InitSse /\ [][NextSse]_vars

\* the same function on streams with markers, thinking records and blank
\* chunks
InitSseMarkers ==
  /\ \E stream \in MarkerStreams, escaped \in BOOLEAN :
       sse_text = IF escaped THEN JsonEscape(Join(<<LF>>, stream))
                  ELSE Join(<<LF>>, stream)
  /\ lines = <<>> /\ ln = 0
  /\ current_event = <<>> /\ answer_chunks = <<>> /\ final_answer_text = <<>>
  /\ exc = "" /\ answer = <<>> /\ spc = "start"
  /\ NormIdle /\ DecodeIdle /\ LoadIdle /\ RepairIdle /\ CallIdle /\ CleanupIdle /\ CreateIdle

SpecSseMarkers == InitSseMarkers /\ [][NextSse]_vars

\* the same function on readable streams of text chunks
InitSseChunks ==
  /\ \E stream \in ChunkStreams : sse_text = Join(<<LF>>, stream)
  /\ lines = <<>> /\ ln = 0
  /\ current_event = <<>> /\ answer_chunks = <<>> /\ final_answer_text = <<>>
  /\ exc = "" /\ answer = <<>> /\ spc = "start"
  /\ NormIdle /\ DecodeIdle /\ LoadIdle /\ RepairIdle /\ CallIdle /\ CleanupIdle /\ CreateIdle

SpecSseChunks == InitSseChunks /\ [][NextSse]_vars

\* the same function on readable streams with several final records
InitSseFinals ==
  /\ \E stream \in FinalStreams : sse_text = Join(<<LF>>, stream)
  /\ lines = <<>> /\ ln = 0
  /\ current_event = <<>> /\ answer_chunks = <<>> /\ final_answer_text = <<>>
  /\ exc = "" /\ answer = <<>> /\ spc = "start"
  /\ NormIdle /\ DecodeIdle /\ LoadIdle /\ RepairIdle /\ CallIdle /\ CleanupIdle /\ CreateIdle

SpecSseFinals == InitSseFinals /\ [][NextSse]_vars

\* the same function on streams with records that carry a table
InitSseTables ==
  /\ \E stream \in TableStreams, escaped \in BOOLEAN :
       sse_text = IF escaped THEN JsonEscape(Join(<<LF>>, stream))
                  ELSE Join(<<LF>>, stream)
  /\ lines = <<>> /\ ln = 0
  /\ current_event = <<>> /\ answer_chunks = <<>> /\ final_answer_text = <<>>
  /\ exc = "" /\ answer = <<>> /\ spc = "start"
  /\ NormIdle /\ DecodeIdle /\ LoadIdle /\ RepairIdle /\ CallIdle /\ CleanupIdle /\ CreateIdle

SpecSseTables == InitSseTables /\ [][NextSse]_vars

(***************************************************************************)
(* parse_sse_content, lines 180-191: the two attempts to parse the value   *)
(* of one data: line, step by step                                         *)
(***************************************************************************)
LoadAlphabet == {BS, QT, "{", "}", "z"}

RecordBodies ==
  { Obj(<<Member("text", JStr(<<"more">>))>>),
    FinalRecord(<<TextItem(<<"final", SP, "answer">>)>>),
    <<"{">> \o Member("text", <<QT, "broken">>) }

\* values of data: lines, stripped and not an end-of-stream marker: short
\* strings, and records as they are, escaped once and escaped twice
LoadInputs ==
  UNION {[1..k -> LoadAlphabet] : k \in 1..MaxLen}
    \cup RecordBodies
    \cup {JsonEscape(b) : b \in RecordBodies}
    \cup {JsonEscape(JsonEscape(b)) : b \in RecordBodies}

InitLoad ==
  /\ line_data \in LoadInputs
  /\ data_str = line_data
  /\ ev = None
  /\ lpass = 0 /\ loads = 0 /\ reinterprets = 0
  /\ lpc = "loop"
  /\ NormIdle /\ SseIdle /\ DecodeIdle /\ RepairIdle /\ CallIdle /\ CleanupIdle /\ CreateIdle

\* lines 182-184: json.loads returns, break
LoadParsed ==
  /\ lpc = "loop" /\ LoadContinues(lpass)
  /\ JsonLoads(data_str).ok
  /\ ev' = JsonLoads(data_str).val
  /\ loads' = loads + 1
  /\ lpass' = lpass + 1
  /\ lpc' = "done"
  /\ UNCHANGED <<line_data, data_str, reinterprets, normVars, sseVars, decodeVars, repairVars, callVars, cleanupVars, createVars>>

\* lines 185-189: json.loads raises, data_str is reinterpreted
LoadReinterpret ==
  /\ lpc = "loop" /\ LoadContinues(lpass)
  /\ ~JsonLoads(data_str).ok /\ Reinterpret(data_str).ok
  /\ data_str' = Reinterpret(data_str).v
  /\ loads' = loads + 1
  /\ reinterprets' = reinterprets + 1
  /\ lpass' = lpass + 1
  /\ UNCHANGED <<line_data, ev, lpc, normVars, sseVars, decodeVars, repairVars, callVars, cleanupVars, createVars>>

\* lines 190-191: the reinterpretation raises too, break
LoadBreak ==
  /\ lpc = "loop" /\ LoadContinues(lpass)
  /\ ~JsonLoads(data_str).ok /\ ~Reinterpret(data_str).ok
  /\ loads' = loads + 1
  /\ lpass' = lpass + 1
  /\ lpc' = "done"
  /\ UNCHANGED <<line_data, data_str, ev, reinterprets, normVars, sseVars, decodeVars, repairVars, callVars, cleanupVars, createVars>>

\* range(2) is exhausted
LoadExhausted ==
  /\ lpc = "loop" /\ ~LoadContinues(lpass)
  /\ lpc' = "done"
  /\ UNCHANGED <<line_data, data_str, ev, lpass, loads, reinterprets,
                 normVars, sseVars, decodeVars, repairVars, callVars, cleanupVars, createVars>>

NextLoad ==
  \/ LoadParsed
  \/ LoadReinterpret
  \/ LoadBreak
  \/ LoadExhausted

SpecLoad == InitLoad /\ [][NextLoad]_vars

(***************************************************************************)
(* repairMojibake, candidate by candidate                                  *)
(***************************************************************************)
\* a, e-acute, A-tilde, copyright sign, a C1 control, f-hook, and
\* i-diaeresis, inverted question mark, one-half (the UTF-8 bytes of the
\* replacement character read as Latin-1), and the replacement character
RepairAlphabet == {97, 233, 195, 169, 131, 402, 239, 191, 189, 65533}

InitRepair ==
  /\ repair_in \in UNION {[1..k -> RepairAlphabet] : k \in 0..MaxLen}
  /\ repair_best = repair_in
  /\ repair_k = 1
  /\ rpc = "try"
  /\ NormIdle /\ SseIdle /\ DecodeIdle /\ LoadIdle /\ CallIdle /\ CleanupIdle /\ CreateIdle

\* the candidate of the next encoding scores lower than the best so far
RepairTake ==
  /\ rpc = "try" /\ repair_k <= Len(Encodings)
  /\ Candidate(Encodings[repair_k], repair_in).ok
  /\ Better(Candidate(Encodings[repair_k], repair_in).v, repair_best)
  /\ repair_best' = Candidate(Encodings[repair_k], repair_in).v
  /\ repair_k' = repair_k + 1
  /\ UNCHANGED <<repair_in, rpc, normVars, sseVars, decodeVars, loadVars, callVars, cleanupVars, createVars>>

\* the next encoding gives no candidate, or one that does not score lower
RepairKeep ==
  /\ rpc = "try" /\ repair_k <= Len(Encodings)
  /\ \/ ~Candidate(Encodings[repair_k], repair_in).ok
     \/ ~Better(Candidate(Encodings[repair_k], repair_in).v, repair_best)
  /\ repair_k' = repair_k + 1
  /\ UNCHANGED <<repair_in, repair_best, rpc, normVars, sseVars, decodeVars, loadVars, callVars, cleanupVars, createVars>>

\* every encoding was tried: the best candidate is returned
RepairReturn ==
  /\ rpc = "try" /\ repair_k > Len(Encodings)
  /\ rpc' = "done"
  /\ UNCHANGED <<repair_in, repair_best, repair_k, normVars, sseVars,
                 decodeVars, loadVars, callVars, cleanupVars, createVars>>

NextRepair ==
  \/ RepairTake
  \/ RepairKeep
  \/ RepairReturn

SpecRepair == InitRepair /\ [][NextRepair]_vars

(***************************************************************************)
(* parse_cortex_response_properly, item by item                            *)
(***************************************************************************)
InitDecode ==
  /\ \/ \E n \in 0..MaxItems :
          \E pick \in [1..n -> 1..Len(ElementCatalog)] :
            cortex_data = Envelope(List([k \in 1..n |-> ElementCatalog[pick[k]]]))
     \/ \E k \in 1..Len(OtherEnvelopes) : cortex_data = OtherEnvelopes[k]
  /\ content = <<>> /\ it = 0
  /\ caught = "" /\ ret = None /\ dpc = "start"
  /\ NormIdle /\ SseIdle /\ LoadIdle /\ RepairIdle /\ CallIdle /\ CleanupIdle /\ CreateIdle

\* lines 287-288: the handler of the try block, for the exception e
Handle(e) ==
  IF Catches(e)
  THEN /\ caught' = e
       /\ ret' = Str(ErrorText(e))
       /\ dpc' = "done"
  ELSE /\ caught' = ""
       /\ ret' = ret
       /\ dpc' = "propagated"

\* lines 267-268
DecodeEnter ==
  /\ dpc = "start" /\ Enter(cortex_data).exc = ""
  /\ content' = Enter(cortex_data).items
  /\ it' = 1
  /\ dpc' = "loop"
  /\ UNCHANGED <<cortex_data, caught, ret, normVars, sseVars, loadVars, repairVars, callVars, cleanupVars, createVars>>

DecodeEnterRaises ==
  /\ dpc = "start" /\ Enter(cortex_data).exc /= ""
  /\ Handle(Enter(cortex_data).exc)
  /\ UNCHANGED <<cortex_data, content, it, normVars, sseVars, loadVars, repairVars, callVars, cleanupVars, createVars>>

\* a pass of the loop that goes on to the next item
DecodeContinue ==
  /\ dpc = "loop" /\ it <= Len(content)
  /\ DecodeItem(content[it]).do = "continue"
  /\ it' = it + 1
  /\ UNCHANGED <<cortex_data, content, caught, ret, dpc, normVars, sseVars, loadVars, repairVars, callVars, cleanupVars, createVars>>

\* a pass of the loop that returns (lines 279 and 282)
DecodeReturn ==
  /\ dpc = "loop" /\ it <= Len(content)
  /\ DecodeItem(content[it]).do = "return"
  /\ ret' = DecodeItem(content[it]).ret
  /\ dpc' = "done"
  /\ UNCHANGED <<cortex_data, content, it, caught, normVars, sseVars, loadVars, repairVars, callVars, cleanupVars, createVars>>

\* a pass of the loop that raises
DecodeRaises ==
  /\ dpc = "loop" /\ it <= Len(content)
  /\ DecodeItem(content[it]).do = "raise"
  /\ Handle(DecodeItem(content[it]).exc)
  /\ UNCHANGED <<cortex_data, content, it, normVars, sseVars, loadVars, repairVars, callVars, cleanupVars, createVars>>

\* line 285: the loop ended without a return
DecodeFallback ==
  /\ dpc = "loop" /\ it > Len(content)
  /\ ret' = Str(COULD_NOT_PARSE)
  /\ dpc' = "done"
  /\ UNCHANGED <<cortex_data, content, it, caught, normVars, sseVars, loadVars, repairVars, callVars, cleanupVars, createVars>>

NextDecode ==
  \/ DecodeEnter
  \/ DecodeEnterRaises
  \/ DecodeContinue
  \/ DecodeReturn
  \/ DecodeRaises
  \/ DecodeFallback

Spec == InitDecode /\ [][NextDecode]_vars

(***************************************************************************)
(* Concurrent calls of parse_cortex_response_properly: each step of a call *)
(* is one pass of its loop over the items or, inside parse_sse_content,    *)
(* one pass of the loop over the lines; the steps of the calls interleave. *)
(***************************************************************************)
MaxCalls == 2

CallCatalog ==
  << Envelope(List(<<TextElement(Stream(<<EventLine(TEXT_DELTA), DeltaChunkLine,
       DataLine(Obj(<<Member("text", JStr(<<"more">>))>>))>>))>>)),
     Envelope(List(<<TextElement(Stream(<<EventLine(RESPONSE), FinalLine>>))>>)),
     Envelope(List(<<TextElement(Stream(<<EventLine(TEXT_DELTA), DeltaChunkLine,
       EventLine(RESPONSE), FinalLine>>))>>)),
     Envelope(List(<<TextElement(Stream(<<EventLine(RESPONSE),
       DataLine(<<"[", "DONE", "]">>)>>)), TextElement(Str(<<"hello">>))>>)),
     Envelope(List(<<TextElement(Stream(<<EventLine(RESPONSE), BadItemLine>>))>>)),
     Envelope(List(<<>>)),
     Envelope(None) >>

\* the locals of parse_sse_content kept in one module-level place
FrameShared(c) == 1

\* lines 163-166: the locals are created by the call, a frame per call
FrameOf(c) == c

TextOf(item) == Get(item, <<"text">>, Str(<<>>))

\* lines 271-277: the pass on this item calls parse_sse_content, which
\* walks lines (line 157 does not return at once)
NeedsParse(item) ==
  /\ HasGet(item) /\ IsTextItem(item) /\ IsStr(TextOf(item))
  /\ In(EVENT, TextOf(item)) /\ In(DATA, TextOf(item))
  /\ ~NothingToParse(TextOf(item).v)

InitCalls ==
  /\ \E pick \in [1..MaxCalls -> 1..Len(CallCatalog)] :
       calls = [c \in 1..MaxCalls |->
                 [in |-> CallCatalog[pick[c]], pc |-> "start", it |-> 0,
                  content |-> <<>>, lines |-> <<>>, ln |-> 0, ret |-> None]]
  /\ frames = [f \in 1..MaxCalls |-> WalkStart]
  /\ NormIdle /\ SseIdle /\ DecodeIdle /\ LoadIdle /\ RepairIdle /\ CleanupIdle /\ CreateIdle

\* lines 287-288 for call c
CallHandled(c, e) ==
  IF Catches(e)
  THEN [calls EXCEPT ![c].ret = Str(ErrorText(e)), ![c].pc = "done"]
  ELSE [calls EXCEPT ![c].pc = "propagated"]

\* what call c goes on with after a pass that does d
CallAfter(c, d) ==
  CASE d.do = "return" -> [calls EXCEPT ![c].ret = d.ret, ![c].pc = "done"]
    [] d.do = "continue" -> [calls EXCEPT ![c].it = @ + 1, ![c].pc = "loop"]
    [] d.do = "raise" -> CallHandled(c, d.exc)

CallEntered(c, e) ==
  IF e.exc = ""
  THEN [calls EXCEPT ![c].content = e.items, ![c].it = 1, ![c].pc = "loop"]
  ELSE CallHandled(c, e.exc)

\* lines 267-268
CallEnter(c) ==
  /\ calls[c].pc = "start"
  /\ calls' = CallEntered(c, Enter(calls[c].in))
  /\ UNCHANGED <<frames, normVars, sseVars, decodeVars, loadVars, repairVars, cleanupVars, createVars>>

\* a pass of the loop over the items that does not walk lines
CallItem(c) ==
  /\ calls[c].pc = "loop" /\ calls[c].it <= Len(calls[c].content)
  /\ ~NeedsParse(calls[c].content[calls[c].it])
  /\ calls' = CallAfter(c, DecodeItem(calls[c].content[calls[c].it]))
  /\ UNCHANGED <<frames, normVars, sseVars, decodeVars, loadVars, repairVars, cleanupVars, createVars>>

\* lines 161-167: parse_sse_content is entered
CallParse(c) ==
  /\ calls[c].pc = "loop" /\ calls[c].it <= Len(calls[c].content)
  /\ NeedsParse(calls[c].content[calls[c].it])
  /\ calls' = [calls EXCEPT
       ![c].lines = SplitLines(normalize_payload(TextOf(calls[c].content[calls[c].it]).v)),
       ![c].ln = 1,
       ![c].pc = "walk"]
  /\ frames' = [frames EXCEPT ![FrameOf(c)] = WalkStart]
  /\ UNCHANGED <<normVars, sseVars, decodeVars, loadVars, repairVars, cleanupVars, createVars>>

CallWalked(c, w) ==
  IF w.exc = "" THEN [calls EXCEPT ![c].ln = @ + 1] ELSE CallHandled(c, w.exc)

\* one pass of the loop over the lines
CallWalkLine(c) ==
  /\ calls[c].pc = "walk" /\ calls[c].ln <= Len(calls[c].lines)
  /\ frames' = [frames EXCEPT
       ![FrameOf(c)] = WalkLine(@, calls[c].lines[calls[c].ln])]
  /\ calls' = CallWalked(c, WalkLine(frames[FrameOf(c)], calls[c].lines[calls[c].ln]))
  /\ UNCHANGED <<normVars, sseVars, decodeVars, loadVars, repairVars, cleanupVars, createVars>>

\* lines 213-215 and 277-279: parse_sse_content returns to the caller
CallWalkEnd(c) ==
  /\ calls[c].pc = "walk" /\ calls[c].ln > Len(calls[c].lines)
  /\ calls' = CallAfter(c,
       DecodeParsed(TextOf(calls[c].content[calls[c].it]),
         [exc |-> "",
          ret |-> Str(Answer(frames[FrameOf(c)],
                             TextOf(calls[c].content[calls[c].it]).v))]))
  /\ UNCHANGED <<frames, normVars, sseVars, decodeVars, loadVars, repairVars, cleanupVars, createVars>>

\* line 285
CallFallback(c) ==
  /\ calls[c].pc = "loop" /\ calls[c].it > Len(calls[c].content)
  /\ calls' = [calls EXCEPT ![c].ret = Str(COULD_NOT_PARSE), ![c].pc = "done"]
  /\ UNCHANGED <<frames, normVars, sseVars, decodeVars, loadVars, repairVars, cleanupVars, createVars>>

NextCalls ==
  \E c \in 1..MaxCalls :
    \/ CallEnter(c)
    \/ CallItem(c)
    \/ CallParse(c)
    \/ CallWalkLine(c)
    \/ CallWalkEnd(c)
    \/ CallFallback(c)

SpecCalls == InitCalls /\ [][NextCalls]_vars

(***************************************************************************)
(* cleanup_aws_resources.py: AWSResourceCleanup.run_cleanup, call by call. *)
(* A resource is a record with the keys the script reads; a key that is    *)
(* absent has the value "" (an id, an ARN, a domain) and is falsy like     *)
(* None.  A name is a sequence of lexemes.  Every call to an AWS client    *)
(* either succeeds or raises ClientError, and a call that raises changes   *)
(* nothing.  Every listing comes in one page.  A credential provider of    *)
(* the account carries the id of the target it was created for (targetId), *)
(* which the script never reads.                                           *)
(***************************************************************************)
\* str.lower(), on the lexemes of the names of the model
LowerOf(c) ==
  CASE c = "Cortex" -> "cortex"
    [] c = "Gateway" -> "gateway"
    [] c = "AgentCore" -> "agentcore"
    [] c = "SnowflakeCortexTarget" -> "snowflakecortextarget"
    [] c = "WikipediaTarget" -> "wikipediatarget"
    [] c = "ApiKey" -> "apikey"
    [] OTHER -> c

Lower(name) == [k \in 1..Len(name) |-> LowerOf(name[k])]

\* lines 250-251: str.startswith
StartsWith(name, prefix) == name /= <<>> /\ Head(name) = prefix

\* lines 83-92
GatewayMatches(gateway) ==
  /\ gateway.gatewayId /= ""
  /\ \/ Contains(Lower(gateway.name), "gateway")
     \/ Contains(Lower(gateway.name), "cortex")
     \/ Contains(Lower(gateway.name), "multitarget")
     \/ Contains(Lower(gateway.name), "agentcore")

\* lines 152-159
ProviderMatches(provider) ==
  /\ provider.credentialProviderArn /= ""
  /\ \/ Contains(Lower(provider.name), "snowflakecortextarget")
     \/ Contains(Lower(provider.name), "wikipediatarget")
     \/ Contains(Lower(provider.name), "apikey")

\* lines 186-188
PoolMatches(pool) ==
  \/ Contains(Lower(pool.Name), "agentcore")
  \/ Contains(Lower(pool.Name), "gateway")
  \/ Contains(Lower(pool.Name), "multitarget")

\* lines 247-252
RoleMatches(role) ==
  /\ \/ Contains(Lower(role.RoleName), "agentcore")
     \/ Contains(Lower(role.RoleName), "gateway")
     \/ role.RoleName = <<"AgentCoreGatewayExecutionRole">>
  /\ ~StartsWith(role.RoleName, "AWS")
  /\ ~StartsWith(role.RoleName, "AmazonSageMaker")
  /\ ~Contains(role.RoleName, "ServiceRole")

\* lines 313-314
FunctionMatches(function) ==
  \/ Contains(Lower(function.FunctionName), "gateway_proxy")
  \/ Contains(Lower(function.FunctionName), "agentcore")

\* lines 352-355
SecretMatches(secret) ==
  \/ Contains(Lower(secret.Name), "agentcore")
  \/ Contains(Lower(secret.Name), "gateway")
  \/ Contains(Lower(secret.Name), "snowflakecortextarget")
  \/ Contains(Lower(secret.Name), "wikipediatarget")

\* the accounts the script is run against
NoResources ==
  [gateways |-> <<>>, targets |-> <<>>, providers |-> <<>>, user_pools |-> <<>>,
   roles |-> <<>>, functions |-> <<>>, secrets |-> <<>>]

GatewayAccount ==
  [NoResources EXCEPT
    !.gateways =
      << [gatewayId |-> "gw-1", name |-> <<"Cortex", "-", "Gateway">>,
          gatewayArn |-> "arn:gw-1"],
         [gatewayId |-> "gw-2", name |-> <<"billing">>,
          gatewayArn |-> "arn:gw-2"],
         [gatewayId |-> "gw-3", name |-> <<"multitarget">>,
          gatewayArn |-> "arn:gw-3"] >>,
    !.targets =
      << [gatewayArn |-> "arn:gw-1", targetId |-> "t-1",
          name |-> <<"SnowflakeCortexTarget">>],
         [gatewayArn |-> "arn:gw-1", targetId |-> "",
          name |-> <<"Unknown">>],
         [gatewayArn |-> "arn:gw-1", targetId |-> "t-2",
          name |-> <<"WikipediaTarget">>],
         [gatewayArn |-> "arn:gw-2", targetId |-> "t-3",
          name |-> <<"billing">>] >>,
    !.providers =
      << [credentialProviderArn |-> "arn:cp-1", targetId |-> "t-1",
          name |-> <<"SnowflakeCortexTarget", "-", "ApiKey">>],
         [credentialProviderArn |-> "arn:cp-2", targetId |-> "t-3",
          name |-> <<"billing">>],
         [credentialProviderArn |-> "arn:cp-3", targetId |-> "t-2",
          name |-> <<"WikipediaTarget", "-", "ApiKey">>] >>]

IdentityAccount ==
  [NoResources EXCEPT
    !.user_pools =
      << [Id |-> "pool-1", Name |-> <<"AgentCore", "-", "pool">>,
          Domain |-> "agentcore-domain"],
         [Id |-> "pool-2", Name |-> <<"billing">>, Domain |-> ""],
         [Id |-> "pool-3", Name |-> <<"Gateway", "-", "pool">>,
          Domain |-> ""] >>,
    !.roles =
      << [RoleName |-> <<"AgentCoreGatewayExecutionRole">>,
          AttachedPolicies |-> <<"arn:policy-1", "">>,
          PolicyNames |-> <<"inline-1">>],
         [RoleName |-> <<"AWS", "ServiceRole", "For", "Gateway">>,
          AttachedPolicies |-> <<"arn:policy-2">>,
          PolicyNames |-> <<>>] >>]

ComputeAccount ==
  [NoResources EXCEPT
    !.functions =
      << [FunctionName |-> <<"gateway_proxy">>],
         [FunctionName |-> <<"billing">>] >>,
    !.secrets =
      << [Name |-> <<"AgentCore", "-", "secret">>, ARN |-> "arn:secret-1"],
         [Name |-> <<"billing">>, ARN |-> "arn:secret-2"] >>]

\* one resource of every kind
MixedAccount ==
  [NoResources EXCEPT
    !.gateways = << [gatewayId |-> "gw-4", name |-> <<"agentcore">>,
                     gatewayArn |-> "arn:gw-4"] >>,
    !.user_pools = << [Id |-> "pool-4", Name |-> <<"multitarget">>,
                       Domain |-> ""] >>,
    !.roles = << [RoleName |-> <<"Gateway", "Role">>,
                  AttachedPolicies |-> <<>>, PolicyNames |-> <<>>] >>,
    !.functions = << [FunctionName |-> <<"AgentCore", "-", "fn">>] >>,
    !.secrets = << [Name |-> <<"WikipediaTarget">>, ARN |-> "arn:secret-3"] >>]

Accounts ==
  {NoResources, GatewayAccount, IdentityAccount, ComputeAccount, MixedAccount}

\* lines 400-406
NoResults ==
  [gateways |-> <<>>, cognito_pools |-> <<>>, iam_roles |-> <<>>,
   lambda_functions |-> <<>>, secrets |-> <<>>]

\* lines 29-52: the script starts against an account, with or without
\* --dry-run and with or without a settings.json
InitCleanup ==
  /\ dry_run \in BOOLEAN
  /\ aws \in Accounts
  /\ settings_exists \in BOOLEAN
  /\ api_calls = <<>>
  /\ results = NoResults
  /\ resources = <<>> /\ resource_k = 0 /\ children = <<>> /\ child_k = 0
  /\ providers = <<>> /\ provider_k = 0
  /\ cpc = "start"
  /\ NormIdle /\ SseIdle /\ DecodeIdle /\ LoadIdle /\ RepairIdle /\ CallIdle /\ CreateIdle

\* a call to an AWS client or to the file system, with its outcome
Called(op, id, ok) == Append(api_calls, [op |-> op, id |-> id, ok |-> ok])

\* the resource the loop is at
Here == resources[resource_k]
Child == children[child_k]

otherVars ==
  <<normVars, sseVars, decodeVars, loadVars, repairVars, callVars, createVars>>

\* lines 102-106 with the id recorded whether or not the call succeeded
RecordedAlways(deleted, id, ok) == Append(deleted, id)

\* lines 102-106 (and 197-201, 262-266, 320-324, 362-372): the append that
\* follows the delete call in the try block is reached only when the call
\* returns
Recorded(deleted, id, ok) == IF ok THEN Append(deleted, id) ELSE deleted

\* lines 409-416 with the roles cleaned up before the user pools
PhaseAfterRolesFirst(phase) ==
  CASE phase = "gateways" -> "list_roles"
    [] phase = "iam_roles" -> "list_user_pools"
    [] phase = "cognito_pools" -> "list_functions"
    [] phase = "lambda_functions" -> "list_secrets"
    [] phase = "secrets" -> "settings_file"

\* lines 409-416: where run_cleanup goes on when a cleanup has returned
PhaseAfter(phase) ==
  CASE phase = "gateways" -> "list_user_pools"
    [] phase = "cognito_pools" -> "list_roles"
    [] phase = "iam_roles" -> "list_functions"
    [] phase = "lambda_functions" -> "list_secrets"
    [] phase = "secrets" -> "settings_file"

\* lines 392-406, 54-64: load_settings_file reads settings.json when it
\* exists, and the result lists start empty
CleanupStart ==
  /\ cpc = "start"
  /\ api_calls' = IF settings_exists THEN Called("read_settings", "settings.json", TRUE)
                  ELSE api_calls
  /\ results' = NoResults
  /\ cpc' = "list_gateways"
  /\ UNCHANGED <<dry_run, aws, settings_exists, resources, resource_k,
                 children, child_k, providers, provider_k, otherVars>>

\* lines 69-80, 111-117: list_gateways; a ClientError ends the gateway
\* cleanup
ListGateways ==
  /\ cpc = "list_gateways"
  /\ \E ok \in BOOLEAN :
       /\ api_calls' = Called("list_gateways", "", ok)
       /\ resources' = IF ok THEN aws.gateways ELSE <<>>
       /\ resource_k' = 1
       /\ cpc' = IF ok THEN "gateway" ELSE PhaseAfter("gateways")
  /\ UNCHANGED <<dry_run, aws, settings_exists, results, children, child_k,
                 providers, provider_k, otherVars>>

\* lines 82, 117: the loop over the gateways is over
GatewaysEnd ==
  /\ cpc = "gateway" /\ resource_k > Len(resources)
  /\ cpc' = PhaseAfter("gateways")
  /\ UNCHANGED <<dry_run, aws, settings_exists, api_calls, results, resources,
                 resource_k, children, child_k, providers, provider_k, otherVars>>

\* lines 82-92: a gateway without id or of another name is left alone
GatewaySkip ==
  /\ cpc = "gateway" /\ resource_k <= Len(resources)
  /\ ~GatewayMatches(Here)
  /\ resource_k' = resource_k + 1
  /\ UNCHANGED <<dry_run, aws, settings_exists, api_calls, results, resources,
                 children, child_k, providers, provider_k, cpc, otherVars>>

\* lines 96, 107-109: dry run
GatewayDryRun ==
  /\ cpc = "gateway" /\ resource_k <= Len(resources)
  /\ GatewayMatches(Here) /\ dry_run
  /\ results' = [results EXCEPT !.gateways = Append(@, Here.gatewayId)]
  /\ resource_k' = resource_k + 1
  /\ UNCHANGED <<dry_run, aws, settings_exists, api_calls, resources,
                 children, child_k, providers, provider_k, cpc, otherVars>>

\* lines 96-99, 121-123, 141-142: _delete_gateway_targets lists the targets
\* of the gateway; a ClientError is logged and the function returns
ListGatewayTargets ==
  /\ cpc = "gateway" /\ resource_k <= Len(resources)
  /\ GatewayMatches(Here) /\ ~dry_run
  /\ \E ok \in BOOLEAN :
       /\ api_calls' = Called("list_gateway_targets", Here.gatewayArn, ok)
       /\ children' = IF ok
                      THEN SelectSeq(aws.targets,
                             LAMBDA t : t.gatewayArn = Here.gatewayArn)
                      ELSE <<>>
       /\ child_k' = 1
       /\ cpc' = IF ok THEN "target" ELSE "delete_gateway"
  /\ UNCHANGED <<dry_run, aws, settings_exists, results, resources,
                 resource_k, providers, provider_k, otherVars>>

\* line 125: the loop over the targets is over
TargetsEnd ==
  /\ cpc = "target" /\ child_k > Len(children)
  /\ cpc' = "delete_gateway"
  /\ UNCHANGED <<dry_run, aws, settings_exists, api_calls, results, resources,
                 resource_k, children, child_k, providers, provider_k, otherVars>>

\* lines 125-129: a target without id is left alone
TargetSkip ==
  /\ cpc = "target" /\ child_k <= Len(children)
  /\ Child.targetId = ""
  /\ child_k' = child_k + 1
  /\ UNCHANGED <<dry_run, aws, settings_exists, api_calls, results, resources,
                 resource_k, children, providers, provider_k, cpc, otherVars>>

\* lines 133, 146-149, 165-166: _delete_target_credentials lists the
\* credential providers; a ClientError is logged and the function returns
ListCredentialProviders ==
  /\ cpc = "target" /\ child_k <= Len(children)
  /\ Child.targetId /= ""
  /\ \E ok \in BOOLEAN :
       /\ api_calls' = Called("list_credential_providers", Here.gatewayArn, ok)
       /\ providers' = IF ok THEN aws.providers ELSE <<>>
       /\ provider_k' = 1
       /\ cpc' = IF ok THEN "provider" ELSE "delete_gateway_target"
  /\ UNCHANGED <<dry_run, aws, settings_exists, results, resources,
                 resource_k, children, child_k, otherVars>>

\* line 151: the loop over the providers is over
ProvidersEnd ==
  /\ cpc = "provider" /\ provider_k > Len(providers)
  /\ cpc' = "delete_gateway_target"
  /\ UNCHANGED <<dry_run, aws, settings_exists, api_calls, results, resources,
                 resource_k, children, child_k, providers, provider_k, otherVars>>

\* lines 151-159: a provider of another name is left alone
ProviderSkip ==
  /\ cpc = "provider" /\ provider_k <= Len(providers)
  /\ ~ProviderMatches(providers[provider_k])
  /\ provider_k' = provider_k + 1
  /\ UNCHANGED <<dry_run, aws, settings_exists, api_calls, results, resources,
                 resource_k, children, child_k, providers, cpc, otherVars>>

\* lines 161-166: delete_credential_provider; a ClientError is logged and
\* the function returns
DeleteCredentialProvider ==
  /\ cpc = "provider" /\ provider_k <= Len(providers)
  /\ ProviderMatches(providers[provider_k])
  /\ LET arn == providers[provider_k].credentialProviderArn
     IN  \E ok \in BOOLEAN :
           /\ api_calls' = Called("delete_credential_provider", arn, ok)
           /\ aws' = IF ok
                     THEN [aws EXCEPT !.providers =
                            SelectSeq(@, LAMBDA p : p.credentialProviderArn /= arn)]
                     ELSE aws
           /\ provider_k' = provider_k + 1
           /\ cpc' = IF ok THEN "provider" ELSE "delete_gateway_target"
  /\ UNCHANGED <<dry_run, settings_exists, results, resources, resource_k,
                 children, child_k, providers, otherVars>>

\* lines 136-142: delete_gateway_target; a ClientError is logged at line
\* 142 and _delete_gateway_targets returns
DeleteGatewayTarget ==
  /\ cpc = "delete_gateway_target"
  /\ \E ok \in BOOLEAN :
       /\ api_calls' = Called("delete_gateway_target", Child.targetId, ok)
       /\ aws' = IF ok
                 THEN [aws EXCEPT !.targets =
                        SelectSeq(@, LAMBDA t : t.targetId /= Child.targetId)]
                 ELSE aws
       /\ cpc' = IF ok THEN "target" ELSE "delete_gateway"
  /\ child_k' = child_k + 1
  /\ UNCHANGED <<dry_run, settings_exists, results, resources, resource_k,
                 children, providers, provider_k, otherVars>>

\* lines 101-106: delete_gateway; the id is recorded when the call
\* succeeds, a ClientError is logged
DeleteGateway ==
  /\ cpc = "delete_gateway"
  /\ \E ok \in BOOLEAN :
       /\ api_calls' = Called("delete_gateway", Here.gatewayId, ok)
       /\ aws' = IF ok
                 THEN [aws EXCEPT !.gateways =
                        SelectSeq(@, LAMBDA g : g.gatewayId /= Here.gatewayId)]
                 ELSE aws
       /\ results' = [results EXCEPT !.gateways = Recorded(@, Here.gatewayId, ok)]
  /\ resource_k' = resource_k + 1
  /\ cpc' = "gateway"
  /\ UNCHANGED <<dry_run, settings_exists, resources, children, child_k,
                 providers, provider_k, otherVars>>

\* lines 172-181, 206-209: list_user_pools; a ClientError ends the pool
\* cleanup
ListUserPools ==
  /\ cpc = "list_user_pools"
  /\ \E ok \in BOOLEAN :
       /\ api_calls' = Called("list_user_pools", "", ok)
       /\ resources' = IF ok THEN aws.user_pools ELSE <<>>
       /\ resource_k' = 1
       /\ cpc' = IF ok THEN "user_pool" ELSE PhaseAfter("cognito_pools")
  /\ UNCHANGED <<dry_run, aws, settings_exists, results, children, child_k,
                 providers, provider_k, otherVars>>

\* lines 181, 209: the loop over the pools is over
UserPoolsEnd ==
  /\ cpc = "user_pool" /\ resource_k > Len(resources)
  /\ cpc' = PhaseAfter("cognito_pools")
  /\ UNCHANGED <<dry_run, aws, settings_exists, api_calls, results, resources,
                 resource_k, children, child_k, providers, provider_k, otherVars>>

\* lines 181-188: a pool of another name is left alone
UserPoolSkip ==
  /\ cpc = "user_pool" /\ resource_k <= Len(resources)
  /\ ~PoolMatches(Here)
  /\ resource_k' = resource_k + 1
  /\ UNCHANGED <<dry_run, aws, settings_exists, api_calls, results, resources,
                 children, child_k, providers, provider_k, cpc, otherVars>>

\* lines 191, 202-204: dry run
UserPoolDryRun ==
  /\ cpc = "user_pool" /\ resource_k <= Len(resources)
  /\ PoolMatches(Here) /\ dry_run
  /\ results' = [results EXCEPT !.cognito_pools = Append(@, Here.Id)]
  /\ resource_k' = resource_k + 1
  /\ UNCHANGED <<dry_run, aws, settings_exists, api_calls, resources,
                 children, child_k, providers, provider_k, cpc, otherVars>>

\* lines 191-194, 213-218, 226-228: _delete_user_pool_domain describes the
\* pool; a ClientError is logged and the function returns
DescribeUserPool ==
  /\ cpc = "user_pool" /\ resource_k <= Len(resources)
  /\ PoolMatches(Here) /\ ~dry_run
  /\ \E ok \in BOOLEAN :
       /\ api_calls' = Called("describe_user_pool", Here.Id, ok)
       /\ cpc' = IF ok /\ Here.Domain /= "" THEN "delete_user_pool_domain"
                 ELSE "delete_user_pool"
  /\ UNCHANGED <<dry_run, aws, settings_exists, results, resources,
                 resource_k, children, child_k, providers, provider_k, otherVars>>

\* lines 218-228: delete_user_pool_domain; a ClientError is logged
DeleteUserPoolDomain ==
  /\ cpc = "delete_user_pool_domain"
  /\ \E ok \in BOOLEAN :
       /\ api_calls' = Called("delete_user_pool_domain", Here.Id, ok)
       /\ aws' = IF ok
                 THEN [aws EXCEPT !.user_pools =
                        [k \in 1..Len(@) |->
                          IF @[k].Id = Here.Id THEN [@[k] EXCEPT !.Domain = ""]
                          ELSE @[k]]]
                 ELSE aws
  /\ cpc' = "delete_user_pool"
  /\ UNCHANGED <<dry_run, settings_exists, results, resources, resource_k,
                 children, child_k, providers, provider_k, otherVars>>

\* lines 196-201: delete_user_pool; the id is recorded when the call
\* succeeds, a ClientError is logged
DeleteUserPool ==
  /\ cpc = "delete_user_pool"
  /\ \E ok \in BOOLEAN :
       /\ api_calls' = Called("delete_user_pool", Here.Id, ok)
       /\ aws' = IF ok
                 THEN [aws EXCEPT !.user_pools =
                        SelectSeq(@, LAMBDA p : p.Id /= Here.Id)]
                 ELSE aws
       /\ results' = [results EXCEPT !.cognito_pools = Recorded(@, Here.Id, ok)]
  /\ resource_k' = resource_k + 1
  /\ cpc' = "user_pool"
  /\ UNCHANGED <<dry_run, settings_exists, resources, children, child_k,
                 providers, provider_k, otherVars>>

\* lines 234-243, 271-274: list_roles; a ClientError ends the role cleanup
ListRoles ==
  /\ cpc = "list_roles"
  /\ \E ok \in BOOLEAN :
       /\ api_calls' = Called("list_roles", "", ok)
       /\ resources' = IF ok THEN aws.roles ELSE <<>>
       /\ resource_k' = 1
       /\ cpc' = IF ok THEN "role" ELSE PhaseAfter("iam_roles")
  /\ UNCHANGED <<dry_run, aws, settings_exists, results, children, child_k,
                 providers, provider_k, otherVars>>

\* lines 243, 274: the loop over the roles is over
RolesEnd ==
  /\ cpc = "role" /\ resource_k > Len(resources)
  /\ cpc' = PhaseAfter("iam_roles")
  /\ UNCHANGED <<dry_run, aws, settings_exists, api_calls, results, resources,
                 resource_k, children, child_k, providers, provider_k, otherVars>>

\* lines 243-252: a role of another name or a service role is left alone
RoleSkip ==
  /\ cpc = "role" /\ resource_k <= Len(resources)
  /\ ~RoleMatches(Here)
  /\ resource_k' = resource_k + 1
  /\ UNCHANGED <<dry_run, aws, settings_exists, api_calls, results, resources,
                 children, child_k, providers, provider_k, cpc, otherVars>>

\* lines 256, 267-269: dry run
RoleDryRun ==
  /\ cpc = "role" /\ resource_k <= Len(resources)
  /\ RoleMatches(Here) /\ dry_run
  /\ results' = [results EXCEPT !.iam_roles = Append(@, Here.RoleName)]
  /\ resource_k' = resource_k + 1
  /\ UNCHANGED <<dry_run, aws, settings_exists, api_calls, resources,
                 children, child_k, providers, provider_k, cpc, otherVars>>

\* the role as the account holds it now (lines 280, 288)
RoleNow == CHOOSE role \in {aws.roles[k] : k \in 1..Len(aws.roles)} :
             role.RoleName = Here.RoleName

\* lines 256-259, 278-281, 293-294: _detach_role_policies lists the
\* attached policies; a ClientError is logged and the function returns
ListAttachedRolePolicies ==
  /\ cpc = "role" /\ resource_k <= Len(resources)
  /\ RoleMatches(Here) /\ ~dry_run
  /\ \E ok \in BOOLEAN :
       /\ api_calls' = Called("list_attached_role_policies", Here.RoleName, ok)
       /\ children' = IF ok THEN RoleNow.AttachedPolicies ELSE <<>>
       /\ child_k' = 1
       /\ cpc' = IF ok THEN "attached_policy" ELSE "delete_role"
  /\ UNCHANGED <<dry_run, aws, settings_exists, results, resources,
                 resource_k, providers, provider_k, otherVars>>

\* lines 281-283: an attached policy without ARN is left alone
AttachedPolicySkip ==
  /\ cpc = "attached_policy" /\ child_k <= Len(children)
  /\ Child = ""
  /\ child_k' = child_k + 1
  /\ UNCHANGED <<dry_run, aws, settings_exists, api_calls, results, resources,
                 resource_k, children, providers, provider_k, cpc, otherVars>>

\* lines 283-285, 293-294: detach_role_policy; a ClientError is logged and
\* the function returns
DetachRolePolicy ==
  /\ cpc = "attached_policy" /\ child_k <= Len(children)
  /\ Child /= ""
  /\ \E ok \in BOOLEAN :
       /\ api_calls' = Called("detach_role_policy", Child, ok)
       /\ aws' = IF ok
                 THEN [aws EXCEPT !.roles =
                        [k \in 1..Len(@) |->
                          IF @[k].RoleName = Here.RoleName
                          THEN [@[k] EXCEPT !.AttachedPolicies =
                                 SelectSeq(@, LAMBDA arn : arn /= Child)]
                          ELSE @[k]]]
                 ELSE aws
       /\ cpc' = IF ok THEN "attached_policy" ELSE "delete_role"
  /\ child_k' = child_k + 1
  /\ UNCHANGED <<dry_run, settings_exists, results, resources, resource_k,
                 children, providers, provider_k, otherVars>>

\* lines 287-289, 293-294: after the attached policies, list_role_policies
\* lists the inline policies; a ClientError is logged and the function
\* returns
ListRolePolicies ==
  /\ cpc = "attached_policy" /\ child_k > Len(children)
  /\ \E ok \in BOOLEAN :
       /\ api_calls' = Called("list_role_policies", Here.RoleName, ok)
       /\ children' = IF ok THEN RoleNow.PolicyNames ELSE <<>>
       /\ child_k' = 1
       /\ cpc' = IF ok THEN "inline_policy" ELSE "delete_role"
  /\ UNCHANGED <<dry_run, aws, settings_exists, results, resources,
                 resource_k, providers, provider_k, otherVars>>

\* line 289: the loop over the inline policies is over
InlinePoliciesEnd ==
  /\ cpc = "inline_policy" /\ child_k > Len(children)
  /\ cpc' = "delete_role"
  /\ UNCHANGED <<dry_run, aws, settings_exists, api_calls, results, resources,
                 resource_k, children, child_k, providers, provider_k, otherVars>>

\* lines 289-294: delete_role_policy; a ClientError is logged and the
\* function returns
DeleteRolePolicy ==
  /\ cpc = "inline_policy" /\ child_k <= Len(children)
  /\ \E ok \in BOOLEAN :
       /\ api_calls' = Called("delete_role_policy", Child, ok)
       /\ aws' = IF ok
                 THEN [aws EXCEPT !.roles =
                        [k \in 1..Len(@) |->
                          IF @[k].RoleName = Here.RoleName
                          THEN [@[k] EXCEPT !.PolicyNames =
                                 SelectSeq(@, LAMBDA name : name /= Child)]
                          ELSE @[k]]]
                 ELSE aws
       /\ cpc' = IF ok THEN "inline_policy" ELSE "delete_role"
  /\ child_k' = child_k + 1
  /\ UNCHANGED <<dry_run, settings_exists, results, resources, resource_k,
                 children, providers, provider_k, otherVars>>

\* lines 261-266: delete_role; the name is recorded when the call succeeds,
\* a ClientError is logged
DeleteRole ==
  /\ cpc = "delete_role"
  /\ \E ok \in BOOLEAN :
       /\ api_calls' = Called("delete_role", Here.RoleName, ok)
       /\ aws' = IF ok
                 THEN [aws EXCEPT !.roles =
                        SelectSeq(@, LAMBDA role : role.RoleName /= Here.RoleName)]
                 ELSE aws
       /\ results' = [results EXCEPT !.iam_roles = Recorded(@, Here.RoleName, ok)]
  /\ resource_k' = resource_k + 1
  /\ cpc' = "role"
  /\ UNCHANGED <<dry_run, settings_exists, resources, children, child_k,
                 providers, provider_k, otherVars>>

\* lines 300-309, 329-332: list_functions; a ClientError ends the function
\* cleanup
ListFunctions ==
  /\ cpc = "list_functions"
  /\ \E ok \in BOOLEAN :
       /\ api_calls' = Called("list_functions", "", ok)
       /\ resources' = IF ok THEN aws.functions ELSE <<>>
       /\ resource_k' = 1
       /\ cpc' = IF ok THEN "function" ELSE PhaseAfter("lambda_functions")
  /\ UNCHANGED <<dry_run, aws, settings_exists, results, children, child_k,
                 providers, provider_k, otherVars>>

\* lines 309, 332: the loop over the functions is over
FunctionsEnd ==
  /\ cpc = "function" /\ resource_k > Len(resources)
  /\ cpc' = PhaseAfter("lambda_functions")
  /\ UNCHANGED <<dry_run, aws, settings_exists, api_calls, results, resources,
                 resource_k, children, child_k, providers, provider_k, otherVars>>

\* lines 309-314: a function of another name is left alone
FunctionSkip ==
  /\ cpc = "function" /\ resource_k <= Len(resources)
  /\ ~FunctionMatches(Here)
  /\ resource_k' = resource_k + 1
  /\ UNCHANGED <<dry_run, aws, settings_exists, api_calls, results, resources,
                 children, child_k, providers, provider_k, cpc, otherVars>>

\* lines 318, 325-327: dry run
FunctionDryRun ==
  /\ cpc = "function" /\ resource_k <= Len(resources)
  /\ FunctionMatches(Here) /\ dry_run
  /\ results' = [results EXCEPT !.lambda_functions = Append(@, Here.FunctionName)]
  /\ resource_k' = resource_k + 1
  /\ UNCHANGED <<dry_run, aws, settings_exists, api_calls, resources,
                 children, child_k, providers, provider_k, cpc, otherVars>>

\* lines 318-324: delete_function; the name is recorded when the call
\* succeeds, a ClientError is logged
DeleteFunction ==
  /\ cpc = "function" /\ resource_k <= Len(resources)
  /\ FunctionMatches(Here) /\ ~dry_run
  /\ \E ok \in BOOLEAN :
       /\ api_calls' = Called("delete_function", Here.FunctionName, ok)
       /\ aws' = IF ok
                 THEN [aws EXCEPT !.functions =
                        SelectSeq(@, LAMBDA f : f.FunctionName /= Here.FunctionName)]
                 ELSE aws
       /\ results' = [results EXCEPT !.lambda_functions = Recorded(@, Here.FunctionName, ok)]
  /\ resource_k' = resource_k + 1
  /\ UNCHANGED <<dry_run, settings_exists, resources, children, child_k,
                 providers, provider_k, cpc, otherVars>>

\* lines 338-347, 377-380: list_secrets; a ClientError ends the secret
\* cleanup
ListSecrets ==
  /\ cpc = "list_secrets"
  /\ \E ok \in BOOLEAN :
       /\ api_calls' = Called("list_secrets", "", ok)
       /\ resources' = IF ok THEN aws.secrets ELSE <<>>
       /\ resource_k' = 1
       /\ cpc' = IF ok THEN "secret" ELSE PhaseAfter("secrets")
  /\ UNCHANGED <<dry_run, aws, settings_exists, results, children, child_k,
                 providers, provider_k, otherVars>>

\* lines 347, 380: the loop over the secrets is over
SecretsEnd ==
  /\ cpc = "secret" /\ resource_k > Len(resources)
  /\ cpc' = PhaseAfter("secrets")
  /\ UNCHANGED <<dry_run, aws, settings_exists, api_calls, results, resources,
                 resource_k, children, child_k, providers, provider_k, otherVars>>

\* lines 347-355: a secret of another name is left alone
SecretSkip ==
  /\ cpc = "secret" /\ resource_k <= Len(resources)
  /\ ~SecretMatches(Here)
  /\ resource_k' = resource_k + 1
  /\ UNCHANGED <<dry_run, aws, settings_exists, api_calls, results, resources,
                 children, child_k, providers, provider_k, cpc, otherVars>>

\* lines 359, 373-375: dry run
SecretDryRun ==
  /\ cpc = "secret" /\ resource_k <= Len(resources)
  /\ SecretMatches(Here) /\ dry_run
  /\ results' = [results EXCEPT !.secrets = Append(@, Here.Name)]
  /\ resource_k' = resource_k + 1
  /\ UNCHANGED <<dry_run, aws, settings_exists, api_calls, resources,
                 children, child_k, providers, provider_k, cpc, otherVars>>

\* lines 359-372: delete_secret; the name is recorded when the call
\* succeeds, a ClientError is logged
DeleteSecret ==
  /\ cpc = "secret" /\ resource_k <= Len(resources)
  /\ SecretMatches(Here) /\ ~dry_run
  /\ \E ok \in BOOLEAN :
       /\ api_calls' = Called("delete_secret", Here.ARN, ok)
       /\ aws' = IF ok
                 THEN [aws EXCEPT !.secrets =
                        SelectSeq(@, LAMBDA x : x.ARN /= Here.ARN)]
                 ELSE aws
       /\ results' = [results EXCEPT !.secrets = Recorded(@, Here.Name, ok)]
  /\ resource_k' = resource_k + 1
  /\ UNCHANGED <<dry_run, settings_exists, resources, children, child_k,
                 providers, provider_k, cpc, otherVars>>

\* the guard of lines 385-386 without the test of dry_run
RemovesSettingsAlways == settings_exists

\* lines 385-386: settings.json exists and this is no dry run
RemovesSettings == settings_exists /\ ~dry_run

\* lines 382-390: cleanup_settings_file
CleanupSettingsFile ==
  /\ cpc = "settings_file"
  /\ api_calls' = IF RemovesSettings THEN Called("unlink", "settings.json", TRUE)
                  ELSE api_calls
  /\ settings_exists' = IF RemovesSettings THEN FALSE ELSE settings_exists
  /\ cpc' = "summary"
  /\ UNCHANGED <<dry_run, aws, results, resources, resource_k, children,
                 child_k, providers, provider_k, otherVars>>

\* lines 418-435: the summary is logged
CleanupSummary ==
  /\ cpc = "summary"
  /\ cpc' = "finished"
  /\ UNCHANGED <<dry_run, aws, settings_exists, api_calls, results, resources,
                 resource_k, children, child_k, providers, provider_k, otherVars>>

NextCleanup ==
  \/ CleanupStart
  \/ ListGateways \/ GatewaysEnd \/ GatewaySkip \/ GatewayDryRun
  \/ ListGatewayTargets \/ TargetsEnd \/ TargetSkip
  \/ ListCredentialProviders \/ ProvidersEnd \/ ProviderSkip
  \/ DeleteCredentialProvider \/ DeleteGatewayTarget \/ DeleteGateway
  \/ ListUserPools \/ UserPoolsEnd \/ UserPoolSkip \/ UserPoolDryRun
  \/ DescribeUserPool \/ DeleteUserPoolDomain \/ DeleteUserPool
  \/ ListRoles \/ RolesEnd \/ RoleSkip \/ RoleDryRun
  \/ ListAttachedRolePolicies \/ AttachedPolicySkip \/ DetachRolePolicy
  \/ ListRolePolicies \/ InlinePoliciesEnd \/ DeleteRolePolicy \/ DeleteRole
  \/ ListFunctions \/ FunctionsEnd \/ FunctionSkip \/ FunctionDryRun
  \/ DeleteFunction
  \/ ListSecrets \/ SecretsEnd \/ SecretSkip \/ SecretDryRun \/ DeleteSecret
  \/ CleanupSettingsFile
  \/ CleanupSummary

SpecCleanup == InitCleanup /\ [][NextCleanup]_vars

(***************************************************************************)
(* create_gateway.py and create_multitarget_gateway.py: the steps of the   *)
(* creation of a gateway.  A call to the GatewayClient either returns or   *)
(* raises; a response is the set of the keys it holds.  The resources the  *)
(* calls create stay in cloud; settings_json is "absent", "previous" (the  *)
(* file of an earlier run), "written" or "truncated" (opened for writing   *)
(* and not filled).                                                        *)
(***************************************************************************)
Scripts == {"create_gateway", "create_multi_target_gateway"}

\* the responses of create_oauth_authorizer_with_cognito: the keys the
\* scripts read are authorizer_config and client_info
CognitoResponses ==
  {{"authorizer_config", "client_info"}, {"authorizer_config"},
   {"client_info"}}

\* the responses of create_mcp_gateway: the keys the scripts read are
\* gatewayId and gatewayUrl
GatewayResponses == {{"gatewayId", "gatewayUrl"}, {"gatewayId"}}

InitCreate ==
  /\ script \in Scripts
  /\ cloud = <<>>
  /\ cognito_response = {}
  /\ gateway_response = {}
  /\ step_log = <<>>
  /\ settings_json \in {"absent", "previous"}
  /\ gpc = "start"
  /\ NormIdle /\ SseIdle /\ DecodeIdle /\ LoadIdle /\ RepairIdle /\ CallIdle
  /\ CleanupIdle

\* a call to the GatewayClient or to the file system, with its outcome
Stepped(op, ok) == Append(step_log, [op |-> op, ok |-> ok])

\* create_gateway.py lines 76-77: the error is printed and the function
\* returns; create_multitarget_gateway.py lines 122-124: the error is
\* printed and raised again.  Neither deletes anything.
OnErrorContinues(name) == "save_settings"
OnError(name) == IF name = "create_gateway" THEN "error_printed" ELSE "raised"

\* create_gateway.py lines 53-55 follow the Cortex target;
\* create_multitarget_gateway.py lines 57-69 add the Wikipedia target first
AfterCortexTarget(name) ==
  IF name = "create_gateway" THEN "access_token" ELSE "wikipedia_target"

\* create_gateway.py lines 12-25, create_multitarget_gateway.py lines
\* 12-29: the schema files, SNOWFLAKE_PAT_TOKEN and the client, before the
\* try; an exception here is not caught
CreateStart ==
  /\ gpc = "start"
  /\ \E ok \in BOOLEAN : gpc' = IF ok THEN "authorizer" ELSE "raised"
  /\ UNCHANGED <<script, cloud, cognito_response, gateway_response, step_log,
                 settings_json, otherCreateVars>>

\* create_gateway.py line 30, create_multitarget_gateway.py line 34
CreateAuthorizer ==
  /\ gpc = "authorizer"
  /\ \E ok \in BOOLEAN, response \in CognitoResponses :
       /\ step_log' = Stepped("create_oauth_authorizer_with_cognito", ok)
       /\ IF ok
          THEN /\ cloud' = Append(cloud, "authorizer")
               /\ cognito_response' = response
               /\ gpc' = "gateway"
          ELSE /\ UNCHANGED <<cloud, cognito_response>>
               /\ gpc' = OnError(script)
  /\ UNCHANGED <<script, gateway_response, settings_json, otherCreateVars>>

\* create_gateway.py lines 34-37, create_multitarget_gateway.py lines
\* 38-41: cognito_response["authorizer_config"] is read before the call
CreateGateway ==
  /\ gpc = "gateway"
  /\ IF "authorizer_config" \notin cognito_response
     THEN /\ gpc' = OnError(script)
          /\ UNCHANGED <<cloud, gateway_response, step_log>>
     ELSE \E ok \in BOOLEAN, response \in GatewayResponses :
            /\ step_log' = Stepped("create_mcp_gateway", ok)
            /\ IF ok
               THEN /\ cloud' = Append(cloud, "gateway")
                    /\ gateway_response' = response
                    /\ gpc' = "cortex_target"
               ELSE /\ UNCHANGED <<cloud, gateway_response>>
                    /\ gpc' = OnError(script)
  /\ UNCHANGED <<script, cognito_response, settings_json, otherCreateVars>>

\* create_gateway.py lines 41-51, create_multitarget_gateway.py lines 45-55
AddCortexTarget ==
  /\ gpc = "cortex_target"
  /\ \E ok \in BOOLEAN :
       /\ step_log' = Stepped("SnowflakeCortexTarget", ok)
       /\ IF ok
          THEN /\ cloud' = Append(cloud, "SnowflakeCortexTarget")
               /\ gpc' = AfterCortexTarget(script)
          ELSE /\ UNCHANGED cloud
               /\ gpc' = OnError(script)
  /\ UNCHANGED <<script, cognito_response, gateway_response, settings_json,
                 otherCreateVars>>

\* create_multitarget_gateway.py lines 59-69
AddWikipediaTarget ==
  /\ gpc = "wikipedia_target"
  /\ \E ok \in BOOLEAN :
       /\ step_log' = Stepped("WikipediaTarget", ok)
       /\ IF ok
          THEN /\ cloud' = Append(cloud, "WikipediaTarget")
               /\ gpc' = "access_token"
          ELSE /\ UNCHANGED cloud
               /\ gpc' = OnError(script)
  /\ UNCHANGED <<script, cognito_response, gateway_response, settings_json,
                 otherCreateVars>>

\* create_gateway.py line 55, create_multitarget_gateway.py line 73:
\* cognito_response["client_info"] is read before the call
GetAccessToken ==
  /\ gpc = "access_token"
  /\ IF "client_info" \notin cognito_response
     THEN /\ gpc' = OnError(script)
          /\ UNCHANGED step_log
     ELSE \E ok \in BOOLEAN :
            /\ step_log' = Stepped("get_access_token_for_cognito", ok)
            /\ gpc' = IF ok THEN "save_settings" ELSE OnError(script)
  /\ UNCHANGED <<script, cloud, cognito_response, gateway_response,
                 settings_json, otherCreateVars>>

\* create_gateway.py lines 57-74, create_multitarget_gateway.py lines
\* 75-120: gateway_response['gatewayId'] and ['gatewayUrl'] are printed,
\* the settings are built, and settings.json is opened for writing and
\* filled by json.dump; open may fail, and json.dump may fail after open
\* has emptied the file
SaveSettings ==
  /\ gpc = "save_settings"
  /\ IF ~({"gatewayId", "gatewayUrl"} \subseteq gateway_response)
     THEN /\ gpc' = OnError(script)
          /\ UNCHANGED <<step_log, settings_json>>
     ELSE \E outcome \in {"saved", "open_fails", "dump_fails"} :
            /\ step_log' = Stepped("write_settings", outcome = "saved")
            /\ settings_json' =
                 CASE outcome = "saved" -> "written"
                   [] outcome = "open_fails" -> settings_json
                   [] outcome = "dump_fails" -> "truncated"
            /\ gpc' = IF outcome = "saved" THEN "returned"
                      ELSE OnError(script)
  /\ UNCHANGED <<script, cloud, cognito_response, gateway_response,
                 otherCreateVars>>

NextCreate ==
  \/ CreateStart
  \/ CreateAuthorizer
  \/ CreateGateway
  \/ AddCortexTarget
  \/ AddWikipediaTarget
  \/ GetAccessToken
  \/ SaveSettings

SpecCreate == InitCreate /\ [][NextCreate]_vars

(***************************************************************************)
(* The stream as the walker sees it                                        *)
(***************************************************************************)
Last(S) == CHOOSE x \in S : \A y \in S : y <= x

IsEventLine(line) == Strip(line) /= <<>> /\ Head(Strip(line)) = EVENT
IsDataLine(line) == Strip(line) /= <<>> /\ Head(Strip(line)) = DATA
DataOf(line) == Strip(Tail(Strip(line)))
RecordOf(line) == LoadRecord(DataOf(line)).ev

\* the name given by the last event: line before line n, empty if none
EventNameBefore(n) ==
  LET before == {j \in 1..(n - 1) : IsEventLine(lines[j])}
  IN  IF before = {} THEN <<>> ELSE Strip(Tail(Strip(lines[Last(before)])))

\* a data: line whose value is no JSON, even after the reinterpretation
Malformed(line) ==
  IsDataLine(line) /\ DataOf(line) \notin DoneMarkers /\ RecordOf(line).t = "none"

\* item is a text item with a non-blank text
NonBlankText(item) ==
  /\ IsDict(item)
  /\ StrEq(Get(item, <<"type">>, None), <<"text">>)
  /\ IsStr(Get(item, <<"text">>, None))
  /\ Strip(Get(item, <<"text">>, None).v) /= <<>>

\* line n is a final record: a record under the event name "response" with
\* a role and a content list that holds a non-blank text item
IsFinalRecord(n) ==
  /\ IsDataLine(lines[n])
  /\ DataOf(lines[n]) \notin DoneMarkers
  /\ EventNameBefore(n) = RESPONSE
  /\ IsDict(RecordOf(lines[n]))
  /\ Truthy(Get(RecordOf(lines[n]), <<"role">>, None))
  /\ IsList(Get(RecordOf(lines[n]), <<"content">>, None))
  /\ \E k \in 1..Len(Get(RecordOf(lines[n]), <<"content">>, None).v) :
       NonBlankText(Get(RecordOf(lines[n]), <<"content">>, None).v[k])

FinalRecords == {n \in 1..Len(lines) : IsFinalRecord(n)}

\* the text of the last non-blank text item of the final record at line n
FinalTextOf(n) ==
  LET items == Get(RecordOf(lines[n]), <<"content">>, None).v
      k == Last({j \in 1..Len(items) : NonBlankText(items[j])})
  IN  Strip(Get(items[k], <<"text">>, None).v)

\* the texts a delta-shape record carries: delta.content[] items of type
\* text or output_text
DeltaShapeItem(item) ==
  /\ IsDict(item)
  /\ \/ StrEq(Get(item, <<"type">>, None), <<"text">>)
     \/ StrEq(Get(item, <<"type">>, None), <<"output_text">>)
  /\ IsStr(Get(item, <<"text">>, None))

DeltaShapeTexts(record) ==
  LET delta == Get(record, <<"delta">>, None)
      items == Get(delta, <<"content">>, None)
  IN  IF IsDict(record) /\ IsDict(delta) /\ IsList(items)
      THEN {Get(items.v[k], <<"text">>, None).v :
              k \in {j \in 1..Len(items.v) : DeltaShapeItem(items.v[j])}}
      ELSE {}

(***************************************************************************)
(* Claims about parse_sse_content (SpecSse)                                *)
(***************************************************************************)
\* C1: when the walk has seen a final "response" record with a non-blank
\* text item, the answer returned is the text of the last such record,
\* whatever chunks were streamed before or after it.
C1_FinalAnswerWins ==
  spc = "done" /\ FinalRecords /= {} => answer = FinalTextOf(Last(FinalRecords))

C1_Witness ==
  /\ spc = "done"
  /\ FinalRecords /= {}
  /\ answer_chunks = << <<"partial">> >>
  /\ answer = <<"final", SP, "answer">>

\* C4: a data: line that is no JSON raises nothing, and the locals after
\* any number of lines are those the walk computes on the same lines with
\* the malformed ones taken out: the other records contribute, in line order.
C4_MalformedLineDropped ==
  /\ spc \in {"walk", "done"} =>
       Locals = WalkFrom(WalkStart,
                  SelectSeq(SubSeq(lines, 1, ln - 1), LAMBDA l : ~Malformed(l)), 1)
  /\ spc = "raised" => ~Malformed(lines[ln - 1])

C4_Witness ==
  /\ spc = "done"
  /\ Len(lines) = 4
  /\ Malformed(lines[3])
  /\ answer_chunks = << <<"partial">>, <<"more">> >>
  /\ answer = <<"partial", LF, "more">>

\* C9 (as claimed): a delta-shape record, one that carries
\* delta.content[] items of type text or output_text, contributes its text
\* to the answer when no final record is seen.
C9_DeltaShapeContributes ==
  spc = "done" /\ FinalRecords = {} =>
    \A n \in 1..Len(lines) :
      IsDataLine(lines[n]) /\ DataOf(lines[n]) \notin DoneMarkers =>
        \A txt \in DeltaShapeTexts(RecordOf(lines[n])) :
          /\ answer /= sse_text
          /\ \A k \in 1..Len(txt) : Contains(answer, txt[k])

\* C10: while the lines are walked, the event name in use is the one given
\* by the last event: line before the current line, empty if there is none.
C10_EventNameScope ==
  spc = "walk" => current_event = EventNameBefore(ln)

C10_Witness ==
  /\ spc = "walk"
  /\ ln >= 3 /\ ln <= Len(lines)
  /\ IsDataLine(lines[ln]) /\ IsDataLine(lines[ln - 1])
  /\ current_event = TEXT_DELTA
  /\ answer_chunks /= <<>>

(***************************************************************************)
(* Claims about parse_sse_content on streams with end-of-stream markers,   *)
(* thinking records and blank chunks (SpecSseMarkers)                      *)
(***************************************************************************)
\* a data: line whose value is [DONE], DONE or empty
IsDoneLine(line) ==
  IsDataLine(line) /\ DataOf(line) \in {<<"[", "DONE", "]">>, <<"DONE">>, <<>>}

\* C11: a data: line whose value is [DONE], DONE or empty raises nothing and
\* does not end the walk, and the locals after any number of lines are
\* those the walk computes on the same lines with the marker lines taken
\* out: a marker gives no record, and the records after it are processed.
C11_DoneMarkerSkipped ==
  /\ spc \in {"walk", "done"} =>
       Locals = WalkFrom(WalkStart,
                  SelectSeq(SubSeq(lines, 1, ln - 1), LAMBDA l : ~IsDoneLine(l)), 1)
  /\ spc = "done" /\ ln > 0 => ln = Len(lines) + 1
  /\ spc = "raised" => ~IsDoneLine(lines[ln - 1])

C11_Witness ==
  /\ spc = "done"
  /\ Len(lines) = 4
  /\ DataOf(lines[2]) = <<"[", "DONE", "]">> /\ IsDoneLine(lines[2])
  /\ IsDoneLine(lines[3]) /\ DataOf(lines[3]) = <<>>
  /\ answer_chunks = << <<"more">> >>
  /\ answer = <<"more">>

\* line n is a record received under the event name response.thinking.delta
ThinkingRecord(n) ==
  IsDataLine(lines[n]) /\ EventNameBefore(n) = THINKING_DELTA

\* the first m lines with the thinking records taken out
WithoutThinking(m) ==
  LET kept[k \in 0..m] ==
        IF k = 0 THEN <<>>
        ELSE IF ThinkingRecord(k) THEN kept[k - 1]
        ELSE Append(kept[k - 1], lines[k])
  IN  kept[m]

\* the answer text the locals w give, empty when they give none (line 214)
Extracted(w) == Answer(w, <<>>)

\* C12: records received under response.thinking.delta never contribute:
\* the chunks and the final text collected, and the answer extracted from
\* them, are those of the walk over the same lines with the thinking
\* records taken out, also when a thinking record carries a text field.
C12_ThinkingIgnored ==
  spc \in {"walk", "done"} /\ ln > 0 =>
    LET w == WalkFrom(WalkStart, WithoutThinking(ln - 1), 1)
    IN  /\ answer_chunks = w.answer_chunks
        /\ final_answer_text = w.final_answer_text
        /\ Extracted(Locals) = Extracted(w)
        /\ spc = "done" /\ answer /= sse_text => answer = Extracted(w)

C12_Witness ==
  /\ spc = "done"
  /\ Len(lines) = 4
  /\ ThinkingRecord(2)
  /\ StrEq(Get(RecordOf(lines[2]), <<"text">>, None), <<"partial", SP>>)
  /\ ~ThinkingRecord(4)
  /\ answer = <<"more">>

(***************************************************************************)
(* Claims about parse_sse_content on streams of text chunks                *)
(* (SpecSseChunks)                                                         *)
(***************************************************************************)
\* the lines of the stream as it arrives
SentLines == SplitLines(sse_text)

\* the event name in force at line n of the line sequence ls
EventNameAt(ls, n) ==
  LET before == {j \in 1..(n - 1) : IsEventLine(ls[j])}
  IN  IF before = {} THEN <<>> ELSE Strip(Tail(Strip(ls[Last(before)])))

\* line n of ls is a response.text.delta record with a non-blank text
IsChunkAt(ls, n) ==
  /\ IsDataLine(ls[n])
  /\ DataOf(ls[n]) \notin DoneMarkers
  /\ EventNameAt(ls, n) = TEXT_DELTA
  /\ IsDict(RecordOf(ls[n]))
  /\ IsStr(Get(RecordOf(ls[n]), <<"text">>, None))
  /\ Strip(Get(RecordOf(ls[n]), <<"text">>, None).v) /= <<>>

\* line n of ls is a final record with a non-blank text item
IsFinalAt(ls, n) ==
  /\ IsDataLine(ls[n])
  /\ DataOf(ls[n]) \notin DoneMarkers
  /\ EventNameAt(ls, n) = RESPONSE
  /\ IsDict(RecordOf(ls[n]))
  /\ Truthy(Get(RecordOf(ls[n]), <<"role">>, None))
  /\ IsList(Get(RecordOf(ls[n]), <<"content">>, None))
  /\ \E k \in 1..Len(Get(RecordOf(ls[n]), <<"content">>, None).v) :
       NonBlankText(Get(RecordOf(ls[n]), <<"content">>, None).v[k])

\* the non-blank chunks of ls in line order, each without its trailing
\* blanks
ChunksOf(ls) ==
  LET upto[k \in 0..Len(ls)] ==
        IF k = 0 THEN <<>>
        ELSE IF IsChunkAt(ls, k)
             THEN Append(upto[k - 1], RStrip(Get(RecordOf(ls[k]), <<"text">>, None).v))
             ELSE upto[k - 1]
  IN  upto[Len(ls)]

\* C19: when the stream holds no final record, the chunks collected are the
\* non-blank response.text.delta chunks of the stream in line order, none
\* dropped, duplicated or reordered and no whitespace-only chunk among
\* them, and the answer is made of them in that order.
C19_ChunksInArrivalOrder ==
  spc = "done" /\ (\A n \in 1..Len(SentLines) : ~IsFinalAt(SentLines, n)) =>
    /\ answer_chunks = ChunksOf(SentLines)
    /\ ChunksOf(SentLines) /= <<>> =>
         answer = Strip(Join(<<LF>>, ChunksOf(SentLines)))

(***************************************************************************)
(* Claims about parse_sse_content on streams with several final records    *)
(* (SpecSseFinals)                                                         *)
(***************************************************************************)
\* the final records of the stream as it arrives
FinalsSent == {n \in 1..Len(SentLines) : IsFinalAt(SentLines, n)}

\* the text of the last non-blank text item of the final record at line n
\* of ls
FinalTextAt(ls, n) ==
  LET items == Get(RecordOf(ls[n]), <<"content">>, None).v
      k == Last({j \in 1..Len(items) : NonBlankText(items[j])})
  IN  Strip(Get(items[k], <<"text">>, None).v)

\* C25: when the stream holds final records, whatever their number and the
\* number of their text items, the answer is the text of the last item
\* with a non-blank text of the last final record that has one: one text,
\* not a concatenation, and never erased by a later blank item.
C25_LastNonBlankFinalText ==
  spc = "done" /\ FinalsSent /= {} =>
    answer = FinalTextAt(SentLines, Last(FinalsSent))

(***************************************************************************)
(* Claims about parse_sse_content on streams with tables (SpecSseTables)   *)
(***************************************************************************)
\* the tables a delta-shape record carries: the items of type "table" of
\* the tool_results.content[] of its delta.content[] items of type
\* "tool_results"
IsToolResults(item) ==
  /\ IsDict(item)
  /\ StrEq(Get(item, <<"type">>, None), <<"tool_results">>)
  /\ IsDict(Get(item, <<"tool_results">>, None))
  /\ IsList(Get(Get(item, <<"tool_results">>, None), <<"content">>, None))

IsTable(item) ==
  IsDict(item) /\ StrEq(Get(item, <<"type">>, None), <<"table">>)

TablesOf(record) ==
  LET delta == Get(record, <<"delta">>, None)
      items == Get(delta, <<"content">>, None)
      tool_results == SelectSeq(items.v, IsToolResults)
      nested == Concat([k \in 1..Len(tool_results) |->
                  Get(Get(tool_results[k], <<"tool_results">>, None), <<"content">>, None).v])
  IN  IF IsDict(record) /\ IsDict(delta) /\ IsList(items)
      THEN SelectSeq(nested, IsTable)
      ELSE <<>>

\* the tables of the records of the stream, in line order
TablesCollected ==
  Concat([n \in 1..Len(lines) |->
    IF IsDataLine(lines[n]) /\ DataOf(lines[n]) \notin DoneMarkers
    THEN TablesOf(RecordOf(lines[n]))
    ELSE <<>>])

\* "Top result: col1=val1, col2=val2" for the first row of a table
TopResult(table) ==
  LET columns == Get(table, <<"columns">>, None).v
      row == Get(table, <<"rows">>, None).v[1].v
  IN  <<"Top result: ">> \o
        Join(<<",", SP>>, [k \in 1..Len(row) |-> columns[k].v \o <<"=">> \o row[k].v])

\* C15 (as claimed): the answer is the direct answer text when there is
\* one; otherwise the "Top result: ..." rendering of the first row of the
\* first table collected; otherwise (the streams here carry no snippets)
\* the literal "(no answer text)".
C15_FallbackChain ==
  spc = "done" /\ ln > 0 =>
    answer = IF Extracted(Locals) /= <<>> THEN Extracted(Locals)
             ELSE IF TablesCollected /= <<>> THEN TopResult(TablesCollected[1])
             ELSE <<"(no answer text)">>

(***************************************************************************)
(* Claims about the parse attempts of one data: line (SpecLoad)            *)
(***************************************************************************)
\* C13: for the value of a data: line at most 2 json.loads calls are made;
\* the second is made only after exactly one reinterpretation, on the
\* reinterpreted text of the value that failed the first; a value that
\* fails both gives no record; and the loop computes what the walker uses.
C13_TwoAttempts ==
  /\ loads <= 2
  /\ lpass <= 2
  /\ loads = lpass
  /\ lpc = "loop" /\ lpass = 0 => reinterprets = 0 /\ data_str = line_data
  /\ lpc = "loop" /\ lpass = 1 =>
       /\ reinterprets = 1
       /\ ~JsonLoads(line_data).ok
       /\ data_str = Reinterpret(line_data).v
  /\ lpc = "done" /\ loads = 2 /\ ~JsonLoads(Reinterpret(line_data).v).ok =>
       ev = None /\ ~IsDict(ev)
  /\ lpc = "done" => ev = LoadRecord(line_data).ev

C13_Witness ==
  /\ lpc = "done"
  /\ loads = 2
  /\ reinterprets = 1
  /\ IsDict(ev)
  /\ StrEq(Get(ev, <<"text">>, None), <<"more">>)

(***************************************************************************)
(* Claims about repairMojibake (SpecRepair)                                *)
(***************************************************************************)
\* the candidates of the argument
Candidates ==
  {Candidate(Encodings[k], repair_in).v :
     k \in {j \in 1..Len(Encodings) : Candidate(Encodings[j], repair_in).ok}}

\* C16: the penalty of the text returned is never above the penalty of the
\* argument, and when no candidate has a penalty below that of the argument
\* the argument is returned unchanged.
C16_NeverNetWorse ==
  /\ Penalty(repair_best) <= Penalty(repair_in)
  /\ rpc = "done" /\ (\A c \in Candidates : Penalty(c) >= Penalty(repair_in))
       => repair_best = repair_in

\* a candidate exists and scores higher than the argument, which is kept
C16_Witness ==
  /\ rpc = "done"
  /\ \E c \in Candidates : Penalty(c) > Penalty(repair_in)
  /\ repair_best = repair_in
  /\ Len(repair_in) = 3

(***************************************************************************)
(* Claims about concurrent calls (SpecCalls)                               *)
(***************************************************************************)
\* C17: however the steps of the calls interleave, a call that is over has
\* returned the value the function gives for its own argument, and no
\* exception has left a call.
C17_CallsIndependent ==
  \A c \in 1..MaxCalls :
    /\ calls[c].pc /= "propagated"
    /\ calls[c].pc = "done" =>
         SameValue(calls[c].ret, parse_cortex_response_properly(calls[c].in))

\* call 1 is over with the final text of its stream while call 2 is in
\* the middle of its walk with a chunk collected
C17_Witness ==
  /\ calls[1].pc = "done" /\ StrEq(calls[1].ret, <<"final", SP, "answer">>)
  /\ frames[1].answer_chunks /= <<>>
  /\ calls[2].pc = "walk" /\ calls[2].ln = 3
  /\ frames[2].answer_chunks = << <<"partial">> >>
  /\ frames[2].final_answer_text = <<>>

(***************************************************************************)
(* Claims about run_cleanup (SpecCleanup)                                  *)
(***************************************************************************)
\* the calls that only read: list and describe calls, and the reading of
\* settings.json
ReadOnlyOps ==
  {"read_settings", "list_gateways", "list_gateway_targets",
   "list_credential_providers", "list_user_pools", "describe_user_pool",
   "list_roles", "list_attached_role_policies", "list_role_policies",
   "list_functions", "list_secrets"}

\* C18: in a dry run no step issues a delete or detach call or removes
\* settings.json: after every step the account and the file are what they
\* were before it, and every call made so far is a list or describe call
\* (or the reading of settings.json).
C18_DryRunDeletesNothing ==
  [][dry_run =>
       /\ aws' = aws
       /\ settings_exists' = settings_exists
       /\ \A k \in 1..Len(api_calls') : api_calls'[k].op \in ReadOnlyOps]_vars

C18_Witness ==
  /\ dry_run /\ cpc = "finished"
  /\ aws = MixedAccount /\ settings_exists
  /\ Len(api_calls) = 6
  /\ \A k \in 1..6 : api_calls[k].ok
  /\ results = [gateways |-> <<"gw-4">>, cognito_pools |-> <<"pool-4">>,
                iam_roles |-> << <<"Gateway", "Role">> >>,
                lambda_functions |-> << <<"AgentCore", "-", "fn">> >>,
                secrets |-> << <<"WikipediaTarget">> >>]

\* the ids of the targets the accounts hold for the gateway of this id
TargetsOfGateway(gateway_id) ==
  UNION {{account.targets[j].targetId :
            j \in {n \in 1..Len(account.targets) :
                    /\ account.targets[n].targetId /= ""
                    /\ \E g \in 1..Len(account.gateways) :
                         /\ account.gateways[g].gatewayId = gateway_id
                         /\ account.gateways[g].gatewayArn =
                              account.targets[n].gatewayArn}} :
         account \in Accounts}

\* C20: delete_gateway is called for a gateway only after
\* delete_gateway_target has succeeded for every target of that gateway,
\* also when listing the targets or deleting one of them raises ClientError.
C20_TargetsDeletedFirst ==
  \A k \in 1..Len(api_calls) :
    api_calls[k].op = "delete_gateway" =>
      \A target_id \in TargetsOfGateway(api_calls[k].id) :
        \E j \in 1..(k - 1) :
          /\ api_calls[j].op = "delete_gateway_target"
          /\ api_calls[j].id = target_id
          /\ api_calls[j].ok

\* the cleanup a call belongs to: 1 gateways, 2 user pools, 3 roles,
\* 4 functions, 5 secrets; 6 the removal of settings.json; 0 the reading
\* of settings.json before the cleanups
PhaseOf(op) ==
  CASE op = "read_settings" -> 0
    [] op \in {"list_gateways", "list_gateway_targets",
               "list_credential_providers", "delete_credential_provider",
               "delete_gateway_target", "delete_gateway"} -> 1
    [] op \in {"list_user_pools", "describe_user_pool",
               "delete_user_pool_domain", "delete_user_pool"} -> 2
    [] op \in {"list_roles", "list_attached_role_policies",
               "detach_role_policy", "list_role_policies",
               "delete_role_policy", "delete_role"} -> 3
    [] op \in {"list_functions", "delete_function"} -> 4
    [] op \in {"list_secrets", "delete_secret"} -> 5
    [] op = "unlink" -> 6

\* the call that opens each cleanup, in the order of the claim
Listings ==
  <<"list_gateways", "list_user_pools", "list_roles", "list_functions",
    "list_secrets">>

CallsOf(op) == {k \in 1..Len(api_calls) : api_calls[k].op = op}

\* C21: the calls of run_cleanup come in the order gateways, user pools,
\* roles, functions, secrets: no call of a cleanup is made after a call of
\* a later one, each cleanup is entered once, and settings.json is removed
\* only after all five cleanups were entered and left; a finished run has
\* entered all five.
C21_PhasesInOrder ==
  /\ \A j, k \in 1..Len(api_calls) :
       j < k => PhaseOf(api_calls[j].op) <= PhaseOf(api_calls[k].op)
  /\ \A n \in 1..Len(Listings) : Cardinality(CallsOf(Listings[n])) <= 1
  /\ \A k \in CallsOf("unlink") :
       /\ k = Len(api_calls)
       /\ \A n \in 1..Len(Listings) : CallsOf(Listings[n]) /= {}
  /\ cpc \in {"settings_file", "summary", "finished"} =>
       \A n \in 1..Len(Listings) : CallsOf(Listings[n]) /= {}

C21_Witness ==
  /\ cpc = "finished" /\ ~dry_run
  /\ CallsOf("unlink") /= {}
  /\ CallsOf("delete_gateway") /= {}
  /\ CallsOf("delete_user_pool") /= {}
  /\ CallsOf("delete_role") /= {}
  /\ CallsOf("delete_function") /= {}
  /\ CallsOf("delete_secret") /= {}

\* C22: a step that deletes credential providers deletes only providers of
\* the target _delete_target_credentials was called for, never one that
\* belongs to another target of the same gateway.
C22_OnlyOwnCredentials ==
  [][\A k \in 1..Len(aws.providers) :
       (\A n \in 1..Len(aws'.providers) : aws'.providers[n] /= aws.providers[k])
         => aws.providers[k].targetId = Child.targetId]_vars

\* a delete call was issued for this id, whatever its outcome
Attempted(op, id) ==
  \E k \in 1..Len(api_calls) : api_calls[k].op = op /\ api_calls[k].id = id

\* the ids of the delete calls of this kind that returned without error, in
\* the order of the calls
Succeeded(op) ==
  LET done == SelectSeq(api_calls, LAMBDA c : c.op = op /\ c.ok)
  IN  [k \in 1..Len(done) |-> done[k].id]

\* the name of the secret with this ARN
SecretNamed(arn) ==
  LET secrets == UNION {{account.secrets[k] : k \in 1..Len(account.secrets)} :
                          account \in Accounts}
  IN  (CHOOSE secret \in secrets : secret.ARN = arn).Name

\* while the script is at one of these places, every matched resource of
\* the listing that the loop has passed had its delete call
AllAttempted(places, Matches(_), op, IdOf(_)) ==
  cpc \in places =>
    \A j \in 1..Len(resources) :
      j < resource_k /\ Matches(resources[j]) => Attempted(op, IdOf(resources[j]))

GatewayIdOf(gateway) == gateway.gatewayId
PoolIdOf(pool) == pool.Id
RoleNameOf(role) == role.RoleName
FunctionNameOf(function) == function.FunctionName
SecretArnOf(secret) == secret.ARN

\* C24: when this is no dry run, a delete call that raises ClientError
\* stops neither the loop over the resources of its kind nor the later
\* cleanups: every matched resource the loop has passed had its delete
\* call, a finished run has listed all five kinds, and each list of
\* deleted resources holds exactly the resources whose delete call
\* returned without error, in the order of the calls.
C24_FailuresIsolated ==
  ~dry_run /\ cpc /= "start" =>
    /\ AllAttempted({"gateway", "target", "provider", "delete_gateway_target",
                     "delete_gateway", "list_user_pools"},
                    GatewayMatches, "delete_gateway", GatewayIdOf)
    /\ AllAttempted({"user_pool", "delete_user_pool_domain", "delete_user_pool",
                     "list_roles"},
                    PoolMatches, "delete_user_pool", PoolIdOf)
    /\ AllAttempted({"role", "attached_policy", "inline_policy", "delete_role",
                     "list_functions"},
                    RoleMatches, "delete_role", RoleNameOf)
    /\ AllAttempted({"function", "list_secrets"},
                    FunctionMatches, "delete_function", FunctionNameOf)
    /\ AllAttempted({"secret", "settings_file", "summary", "finished"},
                    SecretMatches, "delete_secret", SecretArnOf)
    /\ cpc = "finished" =>
         \A n \in 1..Len(Listings) : CallsOf(Listings[n]) /= {}
    /\ results.gateways = Succeeded("delete_gateway")
    /\ results.cognito_pools = Succeeded("delete_user_pool")
    /\ results.iam_roles = Succeeded("delete_role")
    /\ results.lambda_functions = Succeeded("delete_function")
    /\ results.secrets =
         [k \in 1..Len(Succeeded("delete_secret")) |->
            SecretNamed(Succeeded("delete_secret")[k])]

C24_Witness ==
  /\ ~dry_run /\ cpc = "finished"
  /\ \E k \in CallsOf("delete_user_pool") :
       api_calls[k].id = "pool-1" /\ ~api_calls[k].ok
  /\ results.cognito_pools = <<"pool-3">>
  /\ results.iam_roles = << <<"AgentCoreGatewayExecutionRole">> >>

(***************************************************************************)
(* Claims about the creation of a gateway (SpecCreate)                     *)
(***************************************************************************)
\* the step order the claim gives for each of the two scripts
StepOrder ==
  IF script = "create_gateway"
  THEN <<"create_oauth_authorizer_with_cognito", "create_mcp_gateway",
         "SnowflakeCortexTarget", "get_access_token_for_cognito",
         "write_settings">>
  ELSE <<"create_oauth_authorizer_with_cognito", "create_mcp_gateway",
         "SnowflakeCortexTarget", "WikipediaTarget",
         "get_access_token_for_cognito", "write_settings">>

\* the resource a creating step leaves in the account
ResourceOf(op) ==
  CASE op = "create_oauth_authorizer_with_cognito" -> "authorizer"
    [] op = "create_mcp_gateway" -> "gateway"
    [] OTHER -> op

SettingsWritten == settings_json \in {"written", "truncated"}

\* C23: the steps are made in the order authorizer, gateway, Cortex target,
\* (Wikipedia target,) access token, settings.json; a step is made only
\* when every step before it succeeded, so settings.json is written only
\* after all of them succeeded; when a step before the write fails
\* settings.json is not written, and every resource a successful step
\* created is still there, whatever happens afterwards
C23_StepsInOrderNoRollback ==
  /\ Len(step_log) <= Len(StepOrder)
  /\ \A k \in 1..Len(step_log) :
       /\ step_log[k].op = StepOrder[k]
       /\ k < Len(step_log) => step_log[k].ok
  /\ SettingsWritten =>
       /\ Len(step_log) = Len(StepOrder)
       /\ \A k \in 1..(Len(step_log) - 1) : step_log[k].ok
  /\ (\E k \in 1..Len(step_log) :
        ~step_log[k].ok /\ step_log[k].op /= "write_settings")
       => ~SettingsWritten
  /\ \A k \in 1..Len(step_log) :
       (step_log[k].ok /\ step_log[k].op /= "get_access_token_for_cognito"
          /\ step_log[k].op /= "write_settings")
         => cloud[k] = ResourceOf(step_log[k].op)

\* the multi-target script has failed at the Wikipedia target: the error
\* was raised again, the authorizer, the gateway and the Cortex target are
\* still there and no settings.json was written
C23_Witness ==
  /\ script = "create_multi_target_gateway"
  /\ gpc = "raised"
  /\ Len(step_log) = 4
  /\ ~step_log[4].ok
  /\ cloud = <<"authorizer", "gateway", "SnowflakeCortexTarget">>
  /\ settings_json = "absent"

(***************************************************************************)
(* Claims about normalize_payload (SpecNormalize)                          *)
(***************************************************************************)
HasEscapedNewline(q) == \E k \in 1..Len(q) : MatchAt(q, k, <<BS, "n">>)

\* C2 (as claimed): a string that holds a newline and "data:" is returned
\* unchanged.
C2_ReadableUnchanged ==
  npc = "done" /\ Contains(s, DATA) /\ Contains(s, LF) => r = s

\* C2 (amended): a string that holds a newline and "data:" goes through no
\* unescape pass; it is returned with its two-character backslash-n
\* sequences turned into newlines, and so unchanged exactly when it holds
\* no such sequence.
C2_ReadableKeptButNewlines ==
  npc = "done" /\ Contains(s, DATA) /\ Contains(s, LF) =>
    /\ i = 0
    /\ ~HasEscapedNewline(r)
    /\ Len(r) <= Len(s)
    /\ (r = s) <=> ~HasEscapedNewline(s)

C2_Witness ==
  /\ npc = "done"
  /\ Contains(s, DATA) /\ Contains(s, LF) /\ Contains(s, BS)
  /\ r = s

\* C3: no call makes more than 5 unescape passes, for any argument.
C3_AtMostFivePasses == i <= 5

C3_Witness ==
  /\ npc = "done"
  /\ i = 5
  /\ ~(Contains(r, DATA) /\ Contains(r, LF))

\* C8 (as claimed): a string without a backslash that does not hold both
\* "data:" and a newline is returned unchanged.
C8_CleanUnchanged ==
  npc = "done" /\ ~Contains(s, BS) /\ ~(Contains(s, DATA) /\ Contains(s, LF))
    => r = s

(***************************************************************************)
(* Claims about parse_cortex_response_properly (Spec)                      *)
(***************************************************************************)
ResultOf(envelope) == Get(envelope, <<"result">>, Dict(<<>>))
ContentOf(envelope) == Get(ResultOf(envelope), <<"content">>, List(<<>>))

HasContentList ==
  IsDict(cortex_data) /\ IsDict(ResultOf(cortex_data))
    /\ IsList(ContentOf(cortex_data))

\* element is a mapping that gives no answer: it is not of type "text", or
\* its text is an SSE stream from which no answer is extracted
NoAnswerIn(element) ==
  /\ IsDict(element)
  /\ StrEq(Get(element, <<"type">>, None), <<"text">>) =>
       LET text == Get(element, <<"text">>, Str(<<>>))
       IN  /\ IsStr(text)
           /\ Contains(text.v, EVENT) /\ Contains(text.v, DATA)
           /\ parse_sse_content(text.v) = [exc |-> "", ret |-> text.v]

\* C5: no exception leaves the function; a call that is over has returned
\* a value.
C5_NeverRaises ==
  /\ dpc /= "propagated"
  /\ dpc = "done" => ret.t /= "none"

C5_Witness ==
  /\ dpc = "done"
  /\ it >= 1
  /\ caught = "AttributeError"
  /\ StrEq(ret, <<"Error parsing Cortex response: ", "AttributeError">>)

TextElements == {k \in 1..Len(content) : IsDict(content[k]) /\ IsTextItem(content[k])}

First(S) == CHOOSE x \in S : \A y \in S : x <= y

\* C14 (as claimed): only the first element of type "text" is used: an
\* answer that is returned comes from that element, and when it gives no
\* answer the decode ends with the failure literal, never with the text of
\* a later element.
C14_FirstTextElementOnly ==
  dpc = "done" /\ caught = "" /\ TextElements /= {} =>
    \/ StrEq(ret, COULD_NOT_PARSE)
    \/ it = First(TextElements)

\* C7 (as claimed): the value returned is a non-empty string.
C7_AnswerNonEmpty ==
  dpc = "done" => IsStr(ret) /\ ret.v /= <<>>

====
